---------------------------- MODULE Spec2Model ----------------------------
(***************************************************************************)
(* Verification model of zero_log_parser.py: the decoder of Zero           *)
(* Motorcycles MBB/BMS binary logs.                                        *)
(*                                                                         *)
(* Bytes are integers 0..255, byte strings are sequences of bytes, and     *)
(* text strings are sequences of character codes (chr(65) is <<65>>).      *)
(* Python's 0-based half-open slices are kept: Slice(s, a, b) is s[a:b].   *)
(*                                                                         *)
(* The module holds ten specifications over one set of variables:          *)
(*   SpecEscape   BinaryTools.unescape_block on bounded byte blocks        *)
(*   SpecVin      is_vin on candidate strings                              *)
(*   SpecFence    LogData.next_event_fencepost on counter values           *)
(*   Spec         ring-buffer segmentation and the Gen2 decode loop        *)
(*   SpecEntry    Gen2.parse_entry on single records                       *)
(*   SpecGen3     Gen3.payload_to_entry on record payloads                 *)
(*   SpecHeader   LogFile.get_log_type and LogData.get_version_and_header  *)
(*   SpecUnpack   BinaryTools.unpack on short buffers                      *)
(*   SpecSessions two parse_log calls with their steps interleaved         *)
(*   SpecSegment  LogData.get_gen3_entries, one turn of its loop at a time *)
(* A specification leaves the variables of the others at their idle value. *)
(***************************************************************************)
EXTENDS Integers, Sequences, FiniteSets, TLC

VARIABLES
    esc_in, esc_reserved, esc_out, esc_rt,  \* unescape_block: block, reserved bytes, result, round trip
    vin_pc, vin_in, vin_out,                \* is_vin: candidate string, verdict
    fp_b0, fp_b2, fp_prev, fp_cur, fp_steps, \* fencepost bytes 0 and 2, previous and current fencepost
    raw_log,            \* LogFile._data: the bytes of the file
    log_version,        \* LogData.log_version
    timezone_offset,    \* LogData.timezone_offset, set by parse_log
    pc,                 \* "idle", "loaded", "emit", "done" or "raised"
    raised_in,          \* the function an exception escaped from, or ""
    ring,               \* the locals of get_entries_and_counts
    entries,            \* LogData.entries: the logical event log
    entries_count,      \* LogData.entries_count
    read_pos,           \* emit_zero_compatible_decoding: read position
    entry_num,          \* emit_zero_compatible_decoding: loop index
    unhandled,          \* decoder-exception counter
    unknown_entries,    \* unknown-code counter
    unknown,            \* the distinct unknown codes, in order of appearance
    output,             \* the entries written, in order
    last,               \* the last call of Gen2.parse_entry and its result
    gen3_payload,       \* Gen3.payload_to_entry: the record it is given
    gen3_entry,         \* Gen3.payload_to_entry: the Entry it returns
    hdr_path,           \* LogFile.file_path
    hdr_data,           \* LogFile._data
    hdr_pc,             \* "idle", "opened", "typed", "classified" or "raised"
    hdr_log_type,       \* LogFile.log_type
    hdr_result,         \* what get_version_and_header returned, or that it raised
    up_buff,            \* BinaryTools.unpack: buff
    up_address,         \* BinaryTools.unpack: address
    up_size,            \* BinaryTools.unpack: the size of count items of the type
    up_result,          \* BinaryTools.unpack: the bytes it read, or that it raised
    ses_in,             \* per session: the path and the bytes of its file
    ses_pc,             \* per session: the step parse_log has reached
    ses_log,            \* per session: its LogFile (_data, log_type)
    ses_data,           \* per session: its LogData
    ses_emit,           \* per session: the locals of its decode loop
    seg_raw,            \* get_gen3_entries: raw_log
    seg_pc,             \* "idle", "new", "loop", "done", "raised" or "hangs"
    seg_start,          \* get_gen3_entries: event_start
    seg_value,          \* get_gen3_entries: the value of current_fencepost
    seg_count,          \* get_gen3_entries: entries_count
    seg_log,            \* get_gen3_entries: event_log
    seg_marks           \* the event_start and event_end of every record of event_log

escVars == <<esc_in, esc_reserved, esc_out, esc_rt>>
vinVars == <<vin_pc, vin_in, vin_out>>
fpVars == <<fp_b0, fp_b2, fp_prev, fp_cur, fp_steps>>
ringVars == <<raw_log, log_version, timezone_offset, pc, raised_in, ring, entries,
              entries_count, read_pos, entry_num, unhandled, unknown_entries, unknown,
              output, last>>
gen3Vars == <<gen3_payload, gen3_entry>>
hdrVars == <<hdr_path, hdr_data, hdr_pc, hdr_log_type, hdr_result>>
unpackVars == <<up_buff, up_address, up_size, up_result>>
sesVars == <<ses_in, ses_pc, ses_log, ses_data, ses_emit>>
segVars == <<seg_raw, seg_pc, seg_start, seg_value, seg_count, seg_log, seg_marks>>
extVars == <<gen3Vars, hdrVars, unpackVars, sesVars, segVars>>
baseVars == <<escVars, vinVars, fpVars, ringVars>>
vars == <<escVars, vinVars, fpVars, ringVars, extVars>>

(***************************************************************************)
(* Bounds of the model.                                                    *)
(***************************************************************************)
MaxBlockLen == 3

MaxVinLen == 18

MaxFenceSteps == 2

MaxRecords == 2

\* The longest payload of a run-status record in SpecEntry.
MaxPayloadLen == 27

\* The most tokens a generated Rev2 message of SpecGen3 is made of.
MaxTokens == 3

\* The longest buffer of SpecUnpack.
MaxBuffLen == 3

(***************************************************************************)
(* Python primitives.                                                      *)
(***************************************************************************)
Min(a, b) == IF a < b THEN a ELSE b

Max(a, b) == IF a > b THEN a ELSE b

\* The least element of a set of indices, or the given value when it is empty.
FirstOr(indices, otherwise) ==
    IF indices = {} THEN otherwise ELSE CHOOSE i \in indices : \A j \in indices : i <= j

\* s[a:b] for a, b >= 0 (Python clamps both ends to len(s)).
Slice(s, a, b) == SubSeq(s, Min(a, Len(s)) + 1, Min(b, Len(s)))

\* s[a:]
SliceFrom(s, a) == Slice(s, a, Len(s))

\* bytearray.find(bytes([b])): 0-based index of the first b in s, or -1.
FindByte(s, b) ==
    IF \E i \in 1..Len(s) : s[i] = b
    THEN (CHOOSE i \in 1..Len(s) : s[i] = b /\ \A j \in 1..(i - 1) : s[j] # b) - 1
    ELSE -1

RECURSIVE BitXor(_, _)
\* a ^ b for a, b >= 0.
BitXor(a, b) ==
    IF a = 0 THEN b
    ELSE IF b = 0 THEN a
    ELSE (((a % 2) + (b % 2)) % 2) + (2 * BitXor(a \div 2, b \div 2))

\* a ^ b for a >= 0 and b >= -1: Python integers are two's complement of
\* unbounded width, so a ^ -1 is ~a, that is -a - 1.
PyXor(a, b) == IF b = -1 THEN 0 - a - 1 ELSE BitXor(a, b)

(***************************************************************************)
(* BinaryTools.unescape_block (escape codec).                              *)
(***************************************************************************)
ESCAPE_MARKER == 254

\* The value stored by "data[escape_offset] = data[escape_offset] ^
\* data[escape_offset + 1] - 1": binary minus binds tighter than ^.
UnescapedValue(marker, following) == PyXor(marker, following - 1)

RECURSIVE unescape_loop(_, _, _)
\* One evaluation of the while condition and, if it holds, of the body:
\* escape_offset is the result of the last find, relative to start_offset.
\* A bytearray item assignment outside range(0, 256) raises ValueError.
unescape_loop(data, start_offset, escape_offset) ==
    IF escape_offset = -1
    THEN [raised |-> FALSE, data |-> data]
    ELSE LET off == escape_offset + start_offset
         IN IF off + 1 < Len(data)
            THEN LET v == UnescapedValue(data[off + 1], data[off + 2])
                 IN IF v < 0 \/ v > 255
                    THEN [raised |-> TRUE, data |-> <<>>]
                    ELSE LET d2 == Slice([data EXCEPT ![off + 1] = v], 0, off + 1)
                                   \o SliceFrom(data, off + 2)
                         IN unescape_loop(d2, off + 1, FindByte(SliceFrom(d2, off + 1), ESCAPE_MARKER))
            ELSE unescape_loop(data, off + 1, FindByte(SliceFrom(data, off + 1), ESCAPE_MARKER))

RECURSIVE unescape_loop_rescan(_, _, _)
\* unescape_loop with "start_offset = escape_offset" after a replacement: the
\* scan resumes at the replaced byte instead of just after it.
unescape_loop_rescan(data, start_offset, escape_offset) ==
    IF escape_offset = -1
    THEN [raised |-> FALSE, data |-> data]
    ELSE LET off == escape_offset + start_offset
         IN IF off + 1 < Len(data)
            THEN LET v == UnescapedValue(data[off + 1], data[off + 2])
                 IN IF v < 0 \/ v > 255
                    THEN [raised |-> TRUE, data |-> <<>>]
                    ELSE LET d2 == Slice([data EXCEPT ![off + 1] = v], 0, off + 1)
                                   \o SliceFrom(data, off + 2)
                         IN unescape_loop_rescan(d2, off, FindByte(SliceFrom(d2, off), ESCAPE_MARKER))
            ELSE unescape_loop_rescan(data, off + 1, FindByte(SliceFrom(data, off + 1), ESCAPE_MARKER))

unescape_block_rescan(data) == unescape_loop_rescan(data, 0, FindByte(data, ESCAPE_MARKER))

unescape_block(data) == unescape_loop(data, 0, FindByte(data, ESCAPE_MARKER))

ENTRY_HEADER == 178

RECURSIVE escape_block(_, _)
\* The inverse transform of the escape codec: each reserved byte r is written
\* as the pair (0xfe, (r XOR 0xfe) + 1), every other byte as itself.
escape_block(data, reserved) ==
    IF data = <<>> THEN <<>>
    ELSE (IF Head(data) \in reserved
          THEN <<ESCAPE_MARKER, BitXor(Head(data), ESCAPE_MARKER) + 1>>
          ELSE <<Head(data)>>) \o escape_block(Tail(data), reserved)

\* Sets of reserved bytes: the marker alone, the marker and the record
\* delimiter, and a larger set. The second byte of a pair must fit a byte,
\* which excludes 0x01 from any reserved set.
ReservedSets == {{ESCAPE_MARKER}, {ESCAPE_MARKER, ENTRY_HEADER}, {ESCAPE_MARKER, ENTRY_HEADER, 0, 255}}

(***************************************************************************)
(* BinaryTools.is_printable and is_vin.                                    *)
(***************************************************************************)
\* string.printable: digits, ascii_letters, punctuation and whitespace
\* (' \t\n\r\x0b\x0c'), as character codes.
string_digits == 48..57

string_ascii_letters == (97..122) \cup (65..90)

string_punctuation == (33..47) \cup (58..64) \cup (91..96) \cup (123..126)

string_whitespace == {32, 9, 10, 13, 11, 12}

string_printable == string_digits \cup string_ascii_letters \cup string_punctuation \cup string_whitespace

is_printable(bytes_or_str) == \A i \in 1..Len(bytes_or_str) : bytes_or_str[i] \in string_printable

vin_length == 17

\* '538'
vin_guaranteed_prefix == <<53, 51, 56>>

\* str.startswith
startswith(s, prefix) == Len(s) >= Len(prefix) /\ SubSeq(s, 1, Len(prefix)) = prefix

\* is_vin accepting strings one character short.
is_vin_short(vin) ==
    /\ is_printable(vin)
    /\ Len(vin) = vin_length - 1
    /\ startswith(vin, vin_guaranteed_prefix)

\* is_vin without the printable test.
is_vin_unprintable(vin) ==
    /\ Len(vin) = vin_length
    /\ startswith(vin, vin_guaranteed_prefix)

is_vin(vin) ==
    /\ is_printable(vin)
    /\ Len(vin) = vin_length
    /\ startswith(vin, vin_guaranteed_prefix)

(***************************************************************************)
(* LogData.event_fencepost and LogData.next_event_fencepost.               *)
(***************************************************************************)
\* bytes([self.gen3_fencepost_byte0, value, self.gen3_fencepost_byte2])
event_fencepost(byte0, value, byte2) == <<byte0, value, byte2>>

\* next_value without the step over 0xfe.
next_fencepost_value_noskip(previous_value) ==
    LET next_value == previous_value + 1
    IN IF next_value > 255 THEN 1 ELSE next_value

\* The counter arithmetic of next_event_fencepost.
next_fencepost_value(previous_value) ==
    LET next_value == previous_value + 1
        skipped == IF next_value = 254 THEN 255
                   ELSE IF next_value = 0 THEN 1
                   ELSE next_value
    IN IF skipped > 255 THEN 1 ELSE skipped

\* previous_event_fencepost is a bytes object of three bytes.
next_event_fencepost(byte0, byte2, previous_event_fencepost) ==
    event_fencepost(byte0, next_fencepost_value(previous_event_fencepost[2]), byte2)

(***************************************************************************)
(* BinaryTools.unpack for the unsigned integer types and bool.             *)
(***************************************************************************)
\* buff = buff + bytearray(32)
UNPACK_PADDING == 32

\* Byte i (0-based) of the padded buffer; struct.unpack_from reads no further
\* than the padding, which every read of this model respects.
PaddedByte(buff, i) == IF i < Len(buff) THEN buff[i + 1] ELSE 0

RECURSIVE unpack_uint(_, _, _)
\* unpack('uint8' | 'uint16' | 'uint32', buff, address): little-endian.
unpack_uint(buff, address, size) ==
    IF size = 0 THEN 0
    ELSE PaddedByte(buff, address) + (256 * unpack_uint(buff, address + 1, size - 1))

unpack_bool(buff, address) == PaddedByte(buff, address) # 0

\* unpack('int16', buff, address): two's complement.
unpack_int16(buff, address) ==
    IF unpack_uint(buff, address, 2) >= 32768
    THEN unpack_uint(buff, address, 2) - 65536
    ELSE unpack_uint(buff, address, 2)

(***************************************************************************)
(* Text helpers: str(int), display_bytes_hex, str.format padding.          *)
(***************************************************************************)
RECURSIVE str_int(_)
\* str(n) for n >= 0
str_int(n) == IF n < 10 THEN <<48 + n>> ELSE str_int(n \div 10) \o <<48 + (n % 10)>>

\* '{:d}'.format(n)
format_d(n) == IF n < 0 THEN <<45>> \o str_int(-n) ELSE str_int(n)

\* '{:4d}'.format(n) and the like: pad with spaces on the left to width.
rjust(s, width) == [i \in 1..(width - Len(s)) |-> 32] \o s

\* '{:7.3f}'.format(milli_volts / 1000.0): the quotient has three decimals,
\* which the rounding of the double and of the format leave as they are.
format_7_3f_of_milli(milli) ==
    rjust(str_int(milli \div 1000) \o <<46>>
          \o <<48 + ((milli \div 100) % 10), 48 + ((milli \div 10) % 10), 48 + (milli % 10)>>, 7)

\* '0123456789abcdef'
HexDigits == <<48, 49, 50, 51, 52, 53, 54, 55, 56, 57, 97, 98, 99, 100, 101, 102>>

\* '0x{:02x}'.format(c)
format_02x(c) == <<48, 120, HexDigits[(c \div 16) + 1], HexDigits[(c % 16) + 1]>>

RECURSIVE display_bytes_hex(_)
\* ' '.join(['0x{:02x}'.format(c) for c in byte_values])
display_bytes_hex(x) ==
    IF x = <<>> THEN <<>>
    ELSE IF Len(x) = 1 THEN format_02x(x[1])
    ELSE format_02x(x[1]) \o <<32>> \o display_bytes_hex(Tail(x))

\* '{:13s}'.format(s) and the like: pad with spaces on the right to width.
ljust(s, width) == s \o [i \in 1..(width - Len(s)) |-> 32]

\* needle in haystack, for strings
Contains(haystack, needle) ==
    \E i \in 0..(Len(haystack) - Len(needle)) :
        SubSeq(haystack, i + 1, i + Len(needle)) = needle

\* bytes.partition(b'\0')[0]
BeforeNul(b) == IF FindByte(b, 0) = -1 THEN b ELSE Slice(b, 0, FindByte(b, 0))

\* bytes.decode('utf-8', errors='ignore') on bytes that hold no lead byte of
\* a multi-byte character (0xc2..0xf4): ASCII bytes decode to themselves and
\* every other byte is an invalid sequence, which is dropped.
decode_str(b) == SelectSeq(b, LAMBDA c : c < 128)

(***************************************************************************)
(* Gen2: the record decoders. A decoder returns its entry, or raises.      *)
(***************************************************************************)
DecoderRaised == [raised |-> TRUE, event |-> <<>>, has_conditions |-> FALSE, conditions |-> <<>>]

EventOnly(event) == [raised |-> FALSE, event |-> event, has_conditions |-> FALSE, conditions |-> <<>>]

EventConditions(event, conditions) ==
    [raised |-> FALSE, event |-> event, has_conditions |-> TRUE, conditions |-> conditions]

\* 'Key ' + convert_bit_to_on_off(key_on) + (' ' if key_on else '')
key_state(x) ==
    LET key_on == unpack_bool(x, 0)
    IN EventOnly(<<75, 101, 121, 32>>
                 \o (IF key_on THEN <<79, 110>> ELSE <<79, 102, 102>>)
                 \o (IF key_on THEN <<32>> ELSE <<>>))

\* 'System Turned ' + convert_bit_to_on_off(...)
bms_system_state(x) ==
    EventOnly(<<83, 121, 115, 116, 101, 109, 32, 84, 117, 114, 110, 101, 100, 32>>
              \o (IF unpack_bool(x, 0) THEN <<79, 110>> ELSE <<79, 102, 102>>))

\* 'Sevcon CAN Link Up'
sevcon_can_link_up(x) ==
    EventOnly(<<83, 101, 118, 99, 111, 110, 32, 67, 65, 78, 32, 76, 105, 110, 107, 32, 85, 112>>)

\* A run_status that raises when the payload is shorter than its last field.
run_status_strict(x) ==
    IF Len(x) < 27
    THEN DecoderRaised
    ELSE EventConditions(<<82, 105, 100, 105, 110, 103>>, <<>>)

\* 'Riding' and the twelve fields of the payload, each read by
\* BinaryTools.unpack from the padded payload.
run_status(x) ==
    LET mods_byte == unpack_uint(x, 18, 1)
        mods == CASE mods_byte = 0 -> <<48, 48>>
                  [] mods_byte = 1 -> <<49, 48>>
                  [] mods_byte = 2 -> <<48, 49>>
                  [] mods_byte = 3 -> <<49, 49>>
                  [] OTHER -> <<85, 110, 107, 110, 111, 119, 110>>
    IN EventConditions(<<82, 105, 100, 105, 110, 103>>,
          <<80, 97, 99, 107, 84, 101, 109, 112, 58, 32, 104, 32>> \o format_d(unpack_uint(x, 0, 1))
          \o <<67, 44, 32, 108, 32>> \o format_d(unpack_uint(x, 1, 1))
          \o <<67, 44, 32, 80, 97, 99, 107, 83, 79, 67, 58>> \o rjust(format_d(unpack_uint(x, 2, 2)), 3)
          \o <<37, 44, 32, 86, 112, 97, 99, 107, 58>> \o format_7_3f_of_milli(unpack_uint(x, 4, 4))
          \o <<86, 44, 32, 77, 111, 116, 65, 109, 112, 115, 58>> \o rjust(format_d(unpack_int16(x, 19)), 4)
          \o <<44, 32, 66, 97, 116, 116, 65, 109, 112, 115, 58>> \o rjust(format_d(unpack_int16(x, 16)), 4)
          \o <<44, 32, 77, 111, 100, 115, 58, 32>> \o mods
          \o <<44, 32, 77, 111, 116, 84, 101, 109, 112, 58>> \o rjust(format_d(unpack_int16(x, 8)), 4)
          \o <<67, 44, 32, 67, 116, 114, 108, 84, 101, 109, 112, 58>> \o rjust(format_d(unpack_int16(x, 10)), 4)
          \o <<67, 44, 32, 65, 109, 98, 84, 101, 109, 112, 58>> \o rjust(format_d(unpack_int16(x, 21)), 4)
          \o <<67, 44, 32, 77, 111, 116, 82, 80, 77, 58>> \o rjust(format_d(unpack_uint(x, 12, 2)), 4)
          \o <<44, 32, 79, 100, 111, 58>> \o rjust(format_d(unpack_uint(x, 23, 4)), 5)
          \o <<107, 109>>)

\* states.get(charger_state) is None for a state other than 0 and 1, and
\* '{state:13s}'.format(state=None) raises TypeError.
charger_status(x) ==
    LET charger_state == unpack_uint(x, 1, 1)
        charger_id == unpack_uint(x, 0, 1)
        name == CASE charger_id = 0 -> <<67, 97, 108, 101, 120, 32, 55, 50, 48, 87>>
                  [] charger_id = 1 -> <<67, 97, 108, 101, 120, 32, 49, 50, 48, 48, 87>>
                  [] charger_id = 2 -> <<69, 120, 116, 101, 114, 110, 97, 108, 32, 67, 104, 103, 32, 48>>
                  [] charger_id = 3 -> <<69, 120, 116, 101, 114, 110, 97, 108, 32, 67, 104, 103, 32, 49>>
                  [] OTHER -> <<85, 110, 107, 110, 111, 119, 110>>
        state == IF charger_state = 0
                 THEN <<68, 105, 115, 99, 111, 110, 110, 101, 99, 116, 101, 100>>
                 ELSE <<67, 111, 110, 110, 101, 99, 116, 101, 100>>
    IN IF charger_state \notin {0, 1}
       THEN DecoderRaised
       ELSE EventOnly(name \o <<32, 67, 104, 97, 114, 103, 101, 114, 32>>
                      \o str_int(charger_id) \o <<32>> \o ljust(state, 13))

\* BinaryTools.unpack_str(x, 0x0, count=len(x) - 1): the struct format
\* '<-1s' of an empty payload raises struct.error.
debug_message(x) ==
    IF Len(x) = 0
    THEN DecoderRaised
    ELSE EventOnly(decode_str(BeforeNul(Slice(x, 0, Len(x) - 1))))

\* The keys of the parsers dictionary of parse_entry.
parsers ==
    {1, 3, 4, 6, 8, 9, 11, 13, 16, 17, 18, 19, 21, 22, 24, 40, 41, 42, 43, 44, 45, 47, 48,
     51, 52, 54, 56, 57, 58, 59, 60, 61, 253}

\* The decoders this model holds; its logs carry registered records of these
\* types only.
modelled_parsers == {8, 9, 42, 44, 48, 253}

\* entry_parser(message) for entry_parser = parsers.get(message_type)
entry_parser(message_type, message) ==
    CASE message_type = 8 -> bms_system_state(message)
      [] message_type = 9 -> key_state(message)
      [] message_type = 42 -> sevcon_can_link_up(message)
      [] message_type = 44 -> run_status(message)
      [] message_type = 48 -> charger_status(message)
      [] message_type = 253 -> debug_message(message)

\* Gen2.unhandled_entry_format without the message-type code in the event.
unhandled_entry_format_nocode(message_type, x) ==
    EventConditions(display_bytes_hex(x), <<message_type>> \o <<63, 63, 63>>)

\* event: '{message_type} {message}' of the two hex dumps; conditions:
\* chr(message_type) + '???'
unhandled_entry_format(message_type, x) ==
    EventConditions(display_bytes_hex(<<message_type>>) \o <<32>> \o display_bytes_hex(x),
                    <<message_type>> \o <<63, 63, 63>>)

\* Gen2.type_from_block
type_from_block(unescaped_block) == unpack_uint(unescaped_block, 0, 1)

\* timestamp_text without the timezone offset.
timestamp_text_no_offset(timestamp, tz_offset) ==
    IF timestamp > 4095
    THEN [is_date |-> TRUE, seconds |-> timestamp, text |-> <<49, 50, 47, 51, 49, 47, 49, 57, 54, 57, 32, 50, 51, 58, 53, 57, 58, 53, 57>>]
    ELSE [is_date |-> FALSE, seconds |-> timestamp, text |-> <<48>>]

\* '{:02d}'.format(n) for 0 <= n < 100, as %m, %d, %H, %M and %S print.
two_digits(n) == <<48 + (n \div 10), 48 + (n % 10)>>

\* gmtime: the civil date of a day of the proleptic Gregorian calendar, from
\* the day of the 400-year era, the year of the era and the day of the year
\* counted from 1 March.
civil_of_month(y, doy, mp) ==
    [tm_year |-> IF mp < 10 THEN y ELSE y + 1,
     tm_mon |-> IF mp < 10 THEN mp + 3 ELSE mp - 9,
     tm_mday |-> doy - (((153 * mp) + 2) \div 5) + 1]

civil_of_year(era, doe, yoe) ==
    civil_of_month(yoe + (era * 400),
                   doe - ((365 * yoe) + (yoe \div 4) - (yoe \div 100)),
                   ((5 * (doe - ((365 * yoe) + (yoe \div 4) - (yoe \div 100)))) + 2) \div 153)

civil_of_era(era, doe) ==
    civil_of_year(era, doe,
                  (doe - (doe \div 1460) + (doe \div 36524) - (doe \div 146096)) \div 365)

civil_from_days(days) ==
    civil_of_era((days + 719468) \div 146097, (days + 719468) % 146097)

\* strftime(ZERO_TIME_FORMAT, gmtime(seconds)), '%m/%d/%Y %H:%M:%S', for the
\* years 1000..9999.
strftime_date(date, second_of_day) ==
    two_digits(date.tm_mon) \o <<47>> \o two_digits(date.tm_mday) \o <<47>> \o str_int(date.tm_year)
    \o <<32>> \o two_digits(second_of_day \div 3600) \o <<58>>
    \o two_digits((second_of_day \div 60) % 60) \o <<58>> \o two_digits(second_of_day % 60)

strftime_gmtime(seconds) == strftime_date(civil_from_days(seconds \div 86400), seconds % 86400)

\* Gen2.timestamp_from_event with use_local_time=False: a timestamp above
\* 0xfff is rendered by strftime(ZERO_TIME_FORMAT, gmtime(timestamp +
\* timezone_offset)), a smaller one by str().
timestamp_text(timestamp, tz_offset) ==
    IF timestamp > 4095
    THEN [is_date |-> TRUE, seconds |-> timestamp + tz_offset,
          text |-> strftime_gmtime(timestamp + tz_offset)]
    ELSE [is_date |-> FALSE, seconds |-> timestamp, text |-> str_int(timestamp)]

timestamp_from_event(unescaped_block, tz_offset) ==
    timestamp_text(unpack_uint(unescaped_block, 1, 4), tz_offset)

\* 'Exception caught: '
ExceptionCaught == <<69, 120, 99, 101, 112, 116, 105, 111, 110, 32, 99, 97, 117, 103, 104, 116, 58, 32>>

\* The address parse_entry settles on: the first delimiter at or after the
\* given address; when the log ends first, the address at which indexing
\* raised IndexError.
resync_address(log_data, address) ==
    FirstOr({i \in address..(Len(log_data) - 1) : log_data[i + 1] = ENTRY_HEADER},
            Max(Len(log_data), address + 1))

NoEntry == [event |-> <<>>, has_conditions |-> FALSE, conditions |-> <<>>,
            time |-> [is_date |-> FALSE, seconds |-> 0, text |-> <<>>]]

\* The end of parse_entry: the entry of the decoder or of the fallback, the
\* exception counter and the time field.
finish_entry(found, length, unescaped_block, message_type, message, decoded, fallback, unhandled_before, tz_offset) ==
    [raised |-> FALSE, address |-> found, length |-> length,
     message_type |-> message_type, message |-> message,
     decoder_raised |-> decoded.raised,
     entry |-> [event |-> IF decoded.raised THEN ExceptionCaught \o fallback.event
                          ELSE decoded.event,
                has_conditions |-> IF decoded.raised THEN fallback.has_conditions
                                   ELSE decoded.has_conditions,
                conditions |-> IF decoded.raised THEN fallback.conditions
                               ELSE decoded.conditions,
                time |-> timestamp_from_event(unescaped_block, tz_offset)],
     unhandled |-> IF decoded.raised THEN unhandled_before + 1 ELSE unhandled_before]

\* The dispatch of parse_entry on the message type of the unescaped block.
dispatch_entry(found, length, unescaped_block, message_type, message, unhandled_before, tz_offset) ==
    finish_entry(found, length, unescaped_block, message_type, message,
                 IF message_type \in parsers
                 THEN entry_parser(message_type, message)
                 ELSE unhandled_entry_format(message_type, message),
                 unhandled_entry_format(message_type, message),
                 unhandled_before, tz_offset)

\* parse_entry from the unescaped block on. raised: the ValueError of
\* unescape_block leaves parse_entry, the call being outside the try block.
decode_block(found, length, unescaped, unhandled_before, tz_offset) ==
    IF unescaped.raised
    THEN [raised |-> TRUE, address |-> found, length |-> length, message_type |-> 0,
          message |-> <<>>, decoder_raised |-> FALSE, entry |-> NoEntry,
          unhandled |-> unhandled_before]
    ELSE dispatch_entry(found, length, unescaped.data, type_from_block(unescaped.data),
                        SliceFrom(unescaped.data, 5), unhandled_before, tz_offset)

\* parse_entry from the length byte on: length = log_data[address + 1], or 0
\* on IndexError, and the block log_data[address + 0x2:address + length].
read_block(log_data, found, length, unhandled_before, tz_offset) ==
    decode_block(found, length, unescape_block(Slice(log_data, found + 2, found + length)),
                 unhandled_before, tz_offset)

\* What parse_entry does after the header is settled.
parse_entry_at(log_data, found, unhandled_before, tz_offset) ==
    read_block(log_data, found,
               IF found + 1 < Len(log_data) THEN log_data[found + 2] ELSE 0,
               unhandled_before, tz_offset)

\* Gen2.parse_entry
parse_entry(log_data, address, unhandled_before, tz_offset) ==
    parse_entry_at(log_data, resync_address(log_data, address), unhandled_before, tz_offset)

(***************************************************************************)
(* Python str operations used by Gen3.payload_to_entry. Lists of strings   *)
(* are sequences of strings; an OrderedDict is the sequence of its         *)
(* <<key, value>> pairs in insertion order.                                *)
(***************************************************************************)
\* s.find(sub) for a non-empty sub: the 0-based index of the first
\* occurrence, or -1.
find(s, sub) ==
    FirstOr({i \in 0..(Len(s) - Len(sub)) : SubSeq(s, i + 1, i + Len(sub)) = sub}, -1)

\* s.rfind(sub)
rfind(s, sub) ==
    -FirstOr({-i : i \in {j \in 0..(Len(s) - Len(sub)) : SubSeq(s, j + 1, j + Len(sub)) = sub}}, 1)

RECURSIVE split(_, _)
\* s.split(sep)
split(s, sep) ==
    IF find(s, sep) = -1 THEN <<s>>
    ELSE <<Slice(s, 0, find(s, sep))>> \o split(SliceFrom(s, find(s, sep) + Len(sep)), sep)

\* s.split(sep, maxsplit=1) for s that holds sep
split_once(s, sep) == <<Slice(s, 0, find(s, sep)), SliceFrom(s, find(s, sep) + Len(sep))>>

RECURSIVE join(_, _)
\* sep.join(parts)
join(parts, sep) ==
    IF parts = <<>> THEN <<>>
    ELSE IF Len(parts) = 1 THEN parts[1]
    ELSE parts[1] \o sep \o join(Tail(parts), sep)

\* str.isspace for the characters below 128
isspace(c) == c \in (9..13) \cup (28..32)

\* s.strip()
strip(s) ==
    IF \A i \in 1..Len(s) : isspace(s[i]) THEN <<>>
    ELSE SubSeq(s, FirstOr({i \in 1..Len(s) : ~isspace(s[i])}, 1),
                -FirstOr({-i : i \in {j \in 1..Len(s) : ~isspace(s[j])}}, 0))

\* s.rstrip(',')
rstrip_comma(s) ==
    IF \A i \in 1..Len(s) : s[i] = 44 THEN <<>>
    ELSE SubSeq(s, 1, -FirstOr({-i : i \in {j \in 1..Len(s) : s[j] # 44}}, 0))

\* conditions[k] = v: a key the dictionary holds keeps its place.
dict_set(conditions, k, v) ==
    IF \E i \in 1..Len(conditions) : conditions[i][1] = k
    THEN [i \in 1..Len(conditions) |-> IF conditions[i][1] = k THEN <<k, v>> ELSE conditions[i]]
    ELSE Append(conditions, <<k, v>>)

(***************************************************************************)
(* Gen3.payload_to_entry on messages without a newline character: '.' of   *)
(* the regular expressions then matches every character.                   *)
(***************************************************************************)
RECURSIVE key_value_parts(_, _, _, _)
\* for list_part in kv_parts: if ': ' in list_part:
\*     conditions[key_prefix + k] = v + value_suffix
key_value_parts(conditions, kv_parts, key_prefix, value_suffix) ==
    IF kv_parts = <<>> THEN conditions
    ELSE key_value_parts(
            IF Contains(kv_parts[1], <<58, 32>>)
            THEN dict_set(conditions, key_prefix \o split_once(kv_parts[1], <<58, 32>>)[1],
                          split_once(kv_parts[1], <<58, 32>>)[2] \o value_suffix)
            ELSE conditions,
            Tail(kv_parts), key_prefix, value_suffix)

\* re.match(r'(I_)\((.*)\)(.*)', s) for s that starts with 'I_(', and the
\* same with 'V_': it matches when a ')' follows, group 2 runs up to the last
\* ')' and group 3 is what follows it.
prefix_list_matches(s) == rfind(s, <<41>>) >= 3

prefix_list_group2(s) == Slice(s, 3, rfind(s, <<41>>))

prefix_list_group3(s) == SliceFrom(s, rfind(s, <<41>>) + 1)

\* The state of payload_to_entry between its two cascades.
Decomposed(event_message, event_conditions, conditions) ==
    [event_message |-> event_message, event_conditions |-> event_conditions,
     conditions |-> conditions]

\* elif '. ' in payload_string
rule_sentences(sentences) ==
    Decomposed(IF Len(sentences) > 2
               THEN join(SubSeq(sentences, 1, Len(sentences) - 1), <<46, 32>>)
               ELSE sentences[1],
               sentences[Len(sentences)], <<>>)

\* elif payload_string.startswith('I_(')
rule_current(payload_string) ==
    IF prefix_list_matches(payload_string)
    THEN Decomposed(<<67, 117, 114, 114, 101, 110, 116>>, <<>>,
                    key_value_parts(<<>>, split(prefix_list_group2(payload_string), <<44, 32>>),
                                    <<73, 95>>, prefix_list_group3(payload_string)))
    ELSE Decomposed(payload_string, <<>>, <<>>)

\* elif ': ' in payload_string, elif ' = ' in payload_string
rule_split_once(parts) == Decomposed(parts[1], parts[2], <<>>)

\* elif ' from ' in payload_string and ' to ' in payload_string;
\* re.match(r'(.*) to (.*)', event_conditions) splits at the last ' to '.
rule_from_to(parts) ==
    IF Contains(parts[2], <<32, 116, 111, 32>>)
    THEN Decomposed(parts[1], <<>>,
                    << <<(<<102, 114, 111, 109>>), Slice(parts[2], 0, rfind(parts[2], <<32, 116, 111, 32>>))>>,
                       <<(<<116, 111>>), SliceFrom(parts[2], rfind(parts[2], <<32, 116, 111, 32>>) + 4)>> >>)
    ELSE Decomposed(parts[1], parts[2], <<>>)

\* re.match(r'([^()]+) \(([^()]+)\)', payload_string): the first parenthesis
\* is a '(' that follows a space and a non-empty name, and the next one is a
\* ')' that follows a non-empty detail.
rule_name_detail_at(payload_string, open, close) ==
    IF /\ open >= 2
       /\ payload_string[open + 1] = 40
       /\ payload_string[open] = 32
       /\ close > open + 1
       /\ close < Len(payload_string)
       /\ payload_string[close + 1] = 41
    THEN Decomposed(Slice(payload_string, 0, open - 1), Slice(payload_string, open + 1, close), <<>>)
    ELSE Decomposed(payload_string, <<>>, <<>>)

rule_name_detail_from(payload_string, open) ==
    rule_name_detail_at(payload_string, open,
        FirstOr({i \in (open + 1)..(Len(payload_string) - 1) : payload_string[i + 1] \in {40, 41}},
                Len(payload_string)))

rule_name_detail(payload_string) ==
    rule_name_detail_from(payload_string,
        FirstOr({i \in 0..(Len(payload_string) - 1) : payload_string[i + 1] \in {40, 41}}, -1))

\* The first cascade with the test for ': ' before the test for '. '.
primary_rules_colon_first(payload_string) ==
    IF Len(payload_string) < 2 THEN Decomposed(payload_string, <<>>, <<>>)
    ELSE IF Contains(payload_string, <<58, 32>>)
         THEN rule_split_once(split_once(payload_string, <<58, 32>>))
    ELSE IF Contains(payload_string, <<46, 32>>) THEN rule_sentences(split(payload_string, <<46, 32>>))
    ELSE IF startswith(payload_string, <<73, 95, 40>>) THEN rule_current(payload_string)
    ELSE IF Contains(payload_string, <<32, 61, 32>>)
         THEN rule_split_once(split_once(payload_string, <<32, 61, 32>>))
    ELSE IF /\ Contains(payload_string, <<32, 102, 114, 111, 109, 32>>)
            /\ Contains(payload_string, <<32, 116, 111, 32>>)
         THEN rule_from_to(split_once(payload_string, <<32, 102, 114, 111, 109, 32>>))
    ELSE rule_name_detail(payload_string)

\* The first cascade of payload_to_entry.
primary_rules(payload_string) ==
    IF Len(payload_string) < 2 THEN Decomposed(payload_string, <<>>, <<>>)
    ELSE IF Contains(payload_string, <<46, 32>>) THEN rule_sentences(split(payload_string, <<46, 32>>))
    ELSE IF startswith(payload_string, <<73, 95, 40>>) THEN rule_current(payload_string)
    ELSE IF Contains(payload_string, <<58, 32>>)
         THEN rule_split_once(split_once(payload_string, <<58, 32>>))
    ELSE IF Contains(payload_string, <<32, 61, 32>>)
         THEN rule_split_once(split_once(payload_string, <<32, 61, 32>>))
    ELSE IF /\ Contains(payload_string, <<32, 102, 114, 111, 109, 32>>)
            /\ Contains(payload_string, <<32, 116, 111, 32>>)
         THEN rule_from_to(split_once(payload_string, <<32, 102, 114, 111, 109, 32>>))
    ELSE rule_name_detail(payload_string)

\* '0123456789abcdefABCDEF'
HexChars == {48, 49, 50, 51, 52, 53, 54, 55, 56, 57, 97, 98, 99, 100, 101, 102, 65, 66, 67, 68, 69, 70}

\* The end (0-based, exclusive) of the run of hex digits that starts at i.
hex_run_end(s, i) == FirstOr({j \in i..(Len(s) - 1) : s[j + 1] \notin HexChars}, Len(s))

\* re.search('Old: (0x[0-9a-fA-F]+) New: (0x[0-9a-fA-F]+)', s) matches at i.
old_new_at(s, i) ==
    /\ SubSeq(s, i + 1, i + 7) = <<79, 108, 100, 58, 32, 48, 120>>
    /\ hex_run_end(s, i + 7) > i + 7
    /\ SubSeq(s, hex_run_end(s, i + 7) + 1, hex_run_end(s, i + 7) + 8)
         = <<32, 78, 101, 119, 58, 32, 48, 120>>
    /\ hex_run_end(s, hex_run_end(s, i + 7) + 8) > hex_run_end(s, i + 7) + 8

old_new_search(s) == FirstOr({i \in 0..(Len(s) - 17) : old_new_at(s, i)}, -1)

RECURSIVE int_16(_)
\* int(digits, 16)
int_16(digits) ==
    IF digits = <<>> THEN 0
    ELSE (16 * int_16(SubSeq(digits, 1, Len(digits) - 1)))
         + (LET c == digits[Len(digits)]
            IN IF c <= 57 THEN c - 48 ELSE IF c >= 97 THEN c - 87 ELSE c - 55)

RECURSIVE format_b(_)
\* '{0:b}'.format(n)
format_b(n) == IF n < 2 THEN <<48 + n>> ELSE format_b(n \div 2) \o <<48 + (n % 2)>>

\* '{0:0<width>b}'.format(n)
format_0b(n, width) == [i \in 1..(width - Len(format_b(n))) |-> 48] \o format_b(n)

\* conditions['old'], conditions['new'] of the two hex values
old_new_bits(conditions, old_int, new_int) ==
    dict_set(dict_set(conditions, <<111, 108, 100>>,
                      format_0b(old_int, Max(Len(format_b(old_int)), Len(format_b(new_int))))),
             <<110, 101, 119>>,
             format_0b(new_int, Max(Len(format_b(old_int)), Len(format_b(new_int)))))

old_new_rule(conditions, s, i, old_end) ==
    old_new_bits(conditions, int_16(Slice(s, i + 7, old_end)),
                 int_16(Slice(s, old_end + 8, hex_run_end(s, old_end + 8))))

\* The pair of one part with the two-word test before the test for ': '.
comma_part_words_first(list_part, list_part_words) ==
    IF Len(list_part_words) = 2 THEN list_part_words
    ELSE IF Contains(list_part, <<58, 32>>) THEN split_once(list_part, <<58, 32>>)
    ELSE <<list_part, <<>> >>

\* The pair of one part of the comma rule.
comma_part(list_part, list_part_words) ==
    IF Contains(list_part, <<58, 32>>) THEN split_once(list_part, <<58, 32>>)
    ELSE IF Len(list_part_words) = 2 THEN list_part_words
    ELSE <<list_part, <<>> >>

RECURSIVE comma_rule(_, _)
\* for list_part in [x.strip() for x in event_conditions.split(', ')]
comma_rule(conditions, parts) ==
    IF parts = <<>> THEN conditions
    ELSE comma_rule(dict_set(conditions,
                             comma_part(strip(parts[1]), split(strip(parts[1]), <<32>>))[1],
                             comma_part(strip(parts[1]), split(strip(parts[1]), <<32>>))[2]),
                    Tail(parts))

\* The second cascade of payload_to_entry, on event_conditions.
secondary_rules(d) ==
    IF startswith(d.event_conditions, <<86, 95, 40>>)
    THEN IF prefix_list_matches(d.event_conditions)
         THEN Decomposed(d.event_message, prefix_list_group2(d.event_conditions),
                         key_value_parts(d.conditions,
                                         split(prefix_list_group2(d.event_conditions), <<44, 32>>),
                                         <<86, 95>>,
                                         rstrip_comma(prefix_list_group3(d.event_conditions))))
         ELSE d
    ELSE IF /\ Contains(d.event_conditions, <<79, 108, 100, 58, 32>>)
            /\ Contains(d.event_conditions, <<78, 101, 119, 58, 32>>)
    THEN IF old_new_search(d.event_conditions) # -1
         THEN Decomposed(d.event_message, d.event_conditions,
                         old_new_rule(d.conditions, d.event_conditions,
                                      old_new_search(d.event_conditions),
                                      hex_run_end(d.event_conditions,
                                                  old_new_search(d.event_conditions) + 7)))
         ELSE d
    ELSE IF Contains(d.event_conditions, <<44, 32>>)
    THEN Decomposed(d.event_message, d.event_conditions,
                    comma_rule(d.conditions, split(d.event_conditions, <<44, 32>>)))
    ELSE d

RECURSIVE conditions_items(_, _)
\* conditions_str += (k + ': ' + v) if k and v else k or v, after ', '
conditions_items(conditions_str, conditions) ==
    IF conditions = <<>> THEN conditions_str
    ELSE conditions_items(
            (IF conditions_str # <<>> THEN conditions_str \o <<44, 32>> ELSE <<>>)
            \o (IF conditions[1][1] # <<>> /\ conditions[1][2] # <<>>
                THEN conditions[1][1] \o <<58, 32>> \o conditions[1][2]
                ELSE IF conditions[1][1] # <<>> THEN conditions[1][1] ELSE conditions[1][2]),
            Tail(conditions))

\* The Entry of a decomposed message; pairs are kept beside the rendered
\* conditions.
Gen3Entry(d, timestamp_int, data_payload) ==
    [raised |-> FALSE,
     event |-> d.event_message,
     time |-> timestamp_int,
     pairs |-> d.conditions,
     conditions |-> IF Len(d.conditions) > 0 THEN conditions_items(<<>>, d.conditions)
                    ELSE d.event_conditions,
     uninterpreted |-> display_bytes_hex(data_payload)]

\* entry_data_fencepost = b'\x00\xb2'; data_payload is what follows its first
\* occurrence, or None.
data_payload_of(entry_payload, data_fencepost) ==
    IF data_fencepost = -1 THEN <<>> ELSE SliceFrom(entry_payload, data_fencepost + 2)

Gen3Raised == [raised |-> TRUE, event |-> <<>>, time |-> 0, pairs |-> <<>>,
               conditions |-> <<>>, uninterpreted |-> <<>>]

\* int.from_bytes(entry_payload[0:4], byteorder='big', signed=False)
\* of four bytes, kept as its two 16-bit halves: the value is
\* 65536 * high + low.
from_bytes_big(b) == [high |-> (256 * b[1]) + b[2], low |-> (256 * b[3]) + b[4]]

\* Gen3.payload_to_entry with hex_on_error=False. The count len - 7 of
\* unpack_str is negative for a payload shorter than 7 bytes: struct.error.
payload_to_entry(entry_payload) ==
    IF Len(entry_payload) < 7 THEN Gen3Raised
    ELSE Gen3Entry(secondary_rules(primary_rules(
                       strip(decode_str(BeforeNul(SliceFrom(entry_payload, 7)))))),
                   from_bytes_big(Slice(entry_payload, 0, 4)),
                   data_payload_of(entry_payload, find(entry_payload, <<0, 178>>)))

(***************************************************************************)
(* BinaryTools.unpack with its failure, LogFile.get_log_type and           *)
(* LogData.get_version_and_header.                                         *)
(***************************************************************************)
\* The generations of the log format.
REV0 == 0

REV1 == 1

REV2 == 2

\* struct.unpack_from(type_format, buff + bytearray(32), address) raises
\* struct.error when the size bytes at address do not lie inside the padded
\* buffer.
unpack_fails(buff, address, size) == address + size > Len(buff) + UNPACK_PADDING

\* unpack('char', buff, address, count): count bytes of the padded buffer
unpack_char(buff, address, count) == [i \in 1..count |-> PaddedByte(buff, address + i - 1)]

\* LogFile.unpack_str(address, count), utf-8
unpack_str(data, address, count) == decode_str(BeforeNul(unpack_char(data, address, count)))

\* LogFile.unpack_str(address, count, encoding='latin_1'): every byte is a
\* character.
unpack_str_latin_1(data, address, count) == BeforeNul(unpack_char(data, address, count))

\* LogFile.is_printable(address, count)
is_printable_at(data, address, count) ==
    /\ is_printable(decode_str(unpack_char(data, address, count)))
    /\ Len(decode_str(unpack_char(data, address, count))) = count

log_type_mbb == <<77, 66, 66>>

log_type_bms == <<66, 77, 83>>

\* 'Unknown Type'
log_type_unknown == <<85, 110, 107, 110, 111, 119, 110, 32, 84, 121, 112, 101>>

\* str.upper for ASCII text
str_upper(s) == [i \in 1..Len(s) |-> IF s[i] \in 97..122 THEN s[i] - 32 ELSE s[i]]

\* The log type before the test against the two known types; None is <<>>.
log_type_found(data, file_path) ==
    IF is_printable_at(data, 0, 3) THEN unpack_str(data, 0, 3)
    ELSE IF is_printable_at(data, 13, 3) THEN unpack_str(data, 13, 3)
    ELSE IF Contains(str_upper(file_path), log_type_mbb) THEN log_type_mbb
    ELSE IF Contains(str_upper(file_path), log_type_bms) THEN log_type_bms
    ELSE <<>>

\* LogFile.get_log_type
get_log_type(data, file_path) ==
    IF log_type_found(data, file_path) \in {log_type_mbb, log_type_bms}
    THEN log_type_found(data, file_path)
    ELSE log_type_unknown

\* One of the reads (address, size) raises struct.error.
reads_fail(data, reads) == \E r \in reads : unpack_fails(data, r[1], r[2])

HeaderRaised == [raised |-> TRUE, log_version |-> REV0, header_info |-> <<>>]

\* (log_version, sys_info); sys_info is the sequence of its <<key, value>>
\* pairs, and an Unknown log gets 'System info' at the end of the first
\* branch's map.
Header(log_type, version, sys_info) ==
    [raised |-> FALSE, log_version |-> version,
     header_info |-> IF log_type = log_type_unknown
                     THEN sys_info \o << <<"System info", <<117, 110, 107, 110, 111, 119, 110>>>> >>
                     ELSE sys_info]

\* The branch of get_version_and_header for the generation the VINs give;
\* vin is sys_info['VIN'] and model_offset the place of the model.
mbb_header_of(data, log_type, version, reads, head, vin, model_offset) ==
    IF reads_fail(data, reads \cup {<<model_offset, 3>>, <<42, 20>>}) THEN HeaderRaised
    ELSE Header(log_type, version,
                head \o << <<"Model", unpack_str(data, model_offset, 3)>>,
                           <<"Initial date", unpack_str(data, 42, 20)>> >>)

\* if is_vin(vin_v0) ... elif is_vin(vin_v1) ... elif is_vin(vin_v2) ... else
mbb_version(vin_v0, vin_v1, vin_v2) ==
    IF is_vin(vin_v0) THEN REV0
    ELSE IF is_vin(vin_v1) THEN REV1
    ELSE IF is_vin(vin_v2) THEN REV2
    ELSE REV0

\* A candidate is a VIN.
mbb_vin_found(vin_v0, vin_v1, vin_v2) == is_vin(vin_v0) \/ is_vin(vin_v1) \/ is_vin(vin_v2)

\* The first branch of get_version_and_header (is_mbb() or is_unknown()).
mbb_header(data, log_type, vin_v0, vin_v1, vin_v2) ==
    IF ~mbb_vin_found(vin_v0, vin_v1, vin_v2)
    THEN mbb_header_of(data, log_type, REV0, {}, << <<"VIN", vin_v0>> >>, vin_v0, 639)
    ELSE IF mbb_version(vin_v0, vin_v1, vin_v2) = REV0
    THEN mbb_header_of(data, log_type, REV0, {<<512, 21>>, <<635, 2>>, <<637, 2>>},
                       << <<"Serial number", unpack_str(data, 512, 21)>>,
                          <<"VIN", vin_v0>>,
                          <<"Firmware rev.", unpack_uint(data, 635, 2)>>,
                          <<"Board rev.", unpack_uint(data, 637, 2)>> >>, vin_v0, 639)
    ELSE IF mbb_version(vin_v0, vin_v1, vin_v2) = REV1
    THEN mbb_header_of(data, log_type, REV1, {<<528, 13>>, <<614, 2>>, <<616, 2>>},
                       << <<"Serial number", unpack_str(data, 528, 13)>>,
                          <<"VIN", vin_v1>>,
                          <<"Firmware rev.", unpack_uint(data, 614, 2)>>,
                          <<"Board rev.", unpack_uint(data, 616, 2)>> >>, vin_v1, 619)
    ELSE mbb_header_of(data, log_type, REV2, {<<60, 13>>, <<107, 7>>, <<92, 8>>},
                       << <<"Serial number", unpack_str(data, 60, 13)>>,
                          <<"VIN", vin_v2>>,
                          <<"Firmware rev.", unpack_str(data, 107, 7)>>,
                          <<"Board rev.", unpack_str(data, 92, 8)>> >>, vin_v2, 25)

\* log_version of the code at 0x4 of a BMS log
bms_version(log_version_code) ==
    IF log_version_code = 182 THEN REV0
    ELSE IF log_version_code = 222 THEN REV1
    ELSE IF log_version_code = 121 THEN REV2
    ELSE REV0

\* The second branch of get_version_and_header (is_bms()).
bms_header(data, log_type, version) ==
    IF reads_fail(data, {<<4, 1>>, <<18, 20>>}) THEN HeaderRaised
    ELSE IF version = REV0
    THEN IF reads_fail(data, {<<768, 21>>, <<800, 8>>}) THEN HeaderRaised
         ELSE Header(log_type, REV0,
                     << <<"Initial date", unpack_str(data, 18, 20)>>,
                        <<"BMS serial number", unpack_str(data, 768, 21)>>,
                        <<"Pack serial number", unpack_str(data, 800, 8)>> >>)
    ELSE IF version = REV1
    THEN IF reads_fail(data, {<<817, 8>>}) THEN HeaderRaised
         ELSE Header(log_type, REV1,
                     << <<"Initial date", unpack_str(data, 18, 20)>>,
                        <<"Pack serial number", unpack_str(data, 817, 8)>> >>)
    ELSE IF reads_fail(data, {<<56, 13>>, <<108, 7>>}) THEN HeaderRaised
         ELSE Header(log_type, REV2,
                     << <<"Initial date", unpack_str(data, 18, 20)>>,
                        <<"BMS serial number", unpack_str(data, 56, 13)>>,
                        <<"Pack serial number", unpack_str(data, 108, 7)>> >>)

\* LogData.get_version_and_header. The three candidates are read before any
\* is tested; get_filename_vin only feeds warnings.
get_version_and_header(data, log_type) ==
    IF log_type \in {log_type_mbb, log_type_unknown}
    THEN IF reads_fail(data, {<<576, 17>>, <<594, 17>>, <<41, 17>>}) THEN HeaderRaised
         ELSE mbb_header(data, log_type, unpack_str(data, 576, 17), unpack_str(data, 594, 17),
                         unpack_str_latin_1(data, 41, 17))
    ELSE bms_header(data, log_type, bms_version(unpack_uint(data, 4, 1)))

(***************************************************************************)
(* LogFile.index_of_sequence and LogData.get_entries_and_counts.           *)
(***************************************************************************)
\* The None of index_of_sequence.
None == -1

\* b'\xa2\xa2\xa2\xa2'
EntriesHeader == <<162, 162, 162, 162>>

\* self._data.index(sequence), None on ValueError
index_of_sequence(data, sequence) ==
    FirstOr({i \in 0..(Len(data) - Len(sequence)) :
                /\ data[i + 1] = sequence[1]
                /\ SubSeq(data, i + 1, i + Len(sequence)) = sequence}, None)

\* The locals read from the entries header, or the fallback without one.
entries_header_at(data, entries_header_idx) ==
    IF entries_header_idx # None
    THEN [found |-> TRUE,
          entries_end |-> unpack_uint(data, entries_header_idx + 4, 4),
          entries_start |-> unpack_uint(data, entries_header_idx + 8, 4),
          claimed_entries_count |-> unpack_uint(data, entries_header_idx + 12, 4),
          entries_data_begin |-> entries_header_idx + 16]
    ELSE [found |-> FALSE,
          entries_end |-> Len(data),
          entries_start |-> index_of_sequence(data, <<ENTRY_HEADER>>),
          claimed_entries_count |-> 0,
          entries_data_begin |-> index_of_sequence(data, <<ENTRY_HEADER>>)]

entries_header(data) == entries_header_at(data, index_of_sequence(data, EntriesHeader))

\* The event log as a plain slice, whatever the order of start and end.
ring_event_log_plain(data, entries_start, entries_end, entries_data_begin) ==
    Slice(data, entries_start, entries_end)

\* Handle data wrapping across the upper bound of the ring buffer.
ring_event_log(data, entries_start, entries_end, entries_data_begin) ==
    IF entries_start >= entries_end
    THEN SliceFrom(data, entries_start) \o Slice(data, entries_data_begin, entries_end)
    ELSE Slice(data, entries_start, entries_end)

\* bytearray.count(b'\xb2')
CountByte(s, b) == Cardinality({i \in 1..Len(s) : s[i] = b})

\* The claimed count of the entries header taken as the number of entries.
count_entries_claimed(event_log, claimed_entries_count) == claimed_entries_count

\* entries_count = event_log.count(b'\xb2'); claimed_entries_count is only
\* logged.
count_entries(event_log, claimed_entries_count) == CountByte(event_log, ENTRY_HEADER)

(***************************************************************************)
(* LogData.get_gen3_entries on fencepost bytes that are literals of a      *)
(* regular expression.                                                     *)
(***************************************************************************)
\* self._data.index(sequence, start), None on ValueError
index_of_sequence_from(data, sequence, start) ==
    FirstOr({i \in start..(Len(data) - Len(sequence)) :
                /\ data[i + 1] = sequence[1]
                /\ SubSeq(data, i + 1, i + Len(sequence)) = sequence}, None)

\* An index of a slice: a negative one counts from the end.
slice_index(data, i) == IF i < 0 THEN Max(0, Len(data) + i) ELSE Min(i, Len(data))

\* data[a:b] for indices that may be negative
py_slice(data, a, b) == SubSeq(data, slice_index(data, a) + 1, slice_index(data, b))

\* data[a:None]
py_slice_from(data, a) == SubSeq(data, slice_index(data, a) + 1, Len(data))

\* re.search(bytes([byte0, ord('.'), byte2]), raw_log).start(0): '.' matches
\* every byte but the newline.
first_fencepost_match(raw, byte0, byte2) ==
    FirstOr({i \in 0..(Len(raw) - 3) :
                raw[i + 1] = byte0 /\ raw[i + 2] # 10 /\ raw[i + 3] = byte2}, None)

\* The result of the search for the end of an event: the fencepost value it
\* stopped at and event_end, or that the loop never ends.
EventEnd(value, event_end) == [hangs |-> FALSE, value |-> value, event_end |-> event_end]

EventEndHangs == [hangs |-> TRUE, value |-> 0, event_end |-> None]

\* The place of a value in the cycle 1, 2, .., 0xfd, 0xff that
\* next_event_fencepost runs through; 0 precedes 1 and 0xfe is followed by
\* 0xff as 0xfd is.
fencepost_cycle_place(value) == IF value >= 254 THEN value - 1 ELSE value

\* The value next_event_fencepost gives when applied k times.
fencepost_value_after(value, k) ==
    IF k = 0 THEN value
    ELSE IF ((fencepost_cycle_place(value) + k - 1) % 254) + 1 = 254 THEN 255
    ELSE ((fencepost_cycle_place(value) + k - 1) % 254) + 1

\* event_end = log.index_of_sequence(next_fencepost, start=event_start + 1)
\* for the k-th fencepost after the current one
event_end_after(data, byte0, byte2, event_start, current_value, k) ==
    index_of_sequence_from(data,
        event_fencepost(byte0, fencepost_value_after(current_value, k), byte2), event_start + 1)

\* The loop "while event_end is None or event_end - event_start > 256" stops
\* at the k-th fencepost: its event_end is near enough, or (from the second
\* on) it is the current fencepost again.
search_stops_at(data, byte0, byte2, event_start, current_value, k) ==
    \/ k >= 2 /\ fencepost_value_after(current_value, k) = current_value
    \/ \E event_end \in {event_end_after(data, byte0, byte2, event_start, current_value, k)} :
          event_end # None /\ event_end - event_start <= 256

\* The search for the end of an event. The values repeat after 254 steps: a
\* search that has not stopped by then never stops.
search_event_end_stop(data, byte0, byte2, event_start, current_value, k) ==
    IF k = None THEN EventEndHangs
    ELSE EventEnd(fencepost_value_after(current_value, k),
                  event_end_after(data, byte0, byte2, event_start, current_value, k))

search_event_end(data, byte0, byte2, event_start, current_value) ==
    search_event_end_stop(data, byte0, byte2, event_start, current_value,
        FirstOr({k \in 1..255 :
                    search_stops_at(data, byte0, byte2, event_start, current_value, k)}, None))

Gen3Entries(raised, hangs, count, event_log) ==
    [raised |-> raised, hangs |-> hangs, entries_count |-> count, event_log |-> event_log]

RECURSIVE gen3_event_loop(_, _, _, _, _, _)
\* event_payload = raw_log[event_start - 4:event_end - 4 if event_end else event_end]
gen3_event_found(data, byte0, byte2, event_start, found, event_log) ==
    IF found.hangs THEN Gen3Entries(FALSE, TRUE, Len(event_log), event_log)
    ELSE IF found.event_end = None \/ found.event_end >= Len(data)
    THEN Gen3Entries(FALSE, FALSE, Len(event_log) + 1,
                     Append(event_log,
                            IF found.event_end = None THEN py_slice_from(data, event_start - 4)
                            ELSE py_slice(data, event_start - 4, found.event_end - 4)))
    ELSE gen3_event_loop(data, byte0, byte2, event_start, found.value,
                         Append(event_log, py_slice(data, event_start - 4, found.event_end - 4)))

\* One turn of the loop with event_start moved on to the current fencepost.
gen3_event_at(data, byte0, byte2, event_start, current_value, event_log) ==
    gen3_event_found(data, byte0, byte2, event_start,
        search_event_end(data, byte0, byte2, event_start, current_value),
        event_log)

\* while event_start is not None and event_start < entries_end
gen3_event_loop(data, byte0, byte2, event_start, current_value, event_log) ==
    IF event_start >= Len(data) THEN Gen3Entries(FALSE, FALSE, Len(event_log), event_log)
    ELSE gen3_event_at(data, byte0, byte2,
            IF index_of_sequence_from(data, event_fencepost(byte0, current_value, byte2),
                                      event_start + 1) # None
            THEN index_of_sequence_from(data, event_fencepost(byte0, current_value, byte2),
                                        event_start + 1)
            ELSE event_start,
            current_value, event_log)

\* The loop entered at the first fencepost; without one ValueError is raised.
gen3_entries_from(data, byte0, byte2, match_start) ==
    IF match_start = None THEN Gen3Entries(TRUE, FALSE, 0, <<>>)
    ELSE gen3_event_loop(data, byte0, byte2, match_start, data[match_start + 2], <<>>)

\* LogData.get_gen3_entries; raw_log[0x0a] and raw_log[0x0c] raise IndexError
\* on a file shorter than 13 bytes.
get_gen3_entries(raw) ==
    IF Len(raw) < 13 THEN Gen3Entries(TRUE, FALSE, 0, <<>>)
    ELSE gen3_entries_from(raw, raw[11], raw[13], first_fencepost_match(raw, raw[11], raw[13]))

\* The result of get_entries_and_counts for log_version < REV2: TypeError
\* without an entries header and without a delimiter byte.
ring_entries_of(event_log, claimed_entries_count) ==
    Gen3Entries(FALSE, FALSE, count_entries(event_log, claimed_entries_count), event_log)

ring_entries(data, h) ==
    IF h.entries_start = None THEN Gen3Entries(TRUE, FALSE, 0, <<>>)
    ELSE ring_entries_of(ring_event_log(data, h.entries_start, h.entries_end,
                                        h.entries_data_begin),
                         h.claimed_entries_count)

\* LogData.get_entries_and_counts
get_entries_and_counts(data, version) ==
    IF version < REV2 THEN ring_entries(data, entries_header(data))
    ELSE get_gen3_entries(data)

(***************************************************************************)
(* Inputs of the specifications.                                           *)
(***************************************************************************)
\* The bytes the model draws blocks from: the marker, the delimiter, the
\* neighbours of the marker, the ends of the byte range and the following
\* bytes 0x01 and 0x4d that encode the marker and the delimiter.
EscBytes == {0, 1, 2, 77, 178, 253, 254, 255}

BlocksUpTo(n) == UNION {[1..k -> EscBytes] : k \in 0..n}

\* The first n characters of '53812345678901234567...'.
VinBase(n) ==
    [i \in 1..n |-> IF i <= 3 THEN vin_guaranteed_prefix[i] ELSE 48 + ((i - 3) % 10)]

\* Characters substituted into a candidate: NUL, DEL and e-acute are not
\* printable; 'A', '5' and newline are.
VinSubstitutes == {0, 127, 233, 65, 53, 10}

VinCandidates ==
    {VinBase(n) : n \in 0..MaxVinLen}
    \cup {[VinBase(n) EXCEPT ![p] = c] : <<n, p, c>> \in
             {t \in (1..MaxVinLen) \X (1..MaxVinLen) \X VinSubstitutes : t[2] <= t[1]}}

\* A record as the device writes it: the delimiter, the total length and
\* the body (type, timestamp, payload).
Record(body) == <<ENTRY_HEADER, Len(body) + 2>> \o body

\* The pieces the logs of the model are made of.
RecordTemplates ==
    { Record(<<153, 1, 0, 0, 0, 170>>),            \* type 0x99 is not registered
      Record(<<9, 0, 0, 0, 94, 1>>),               \* key_state, a real timestamp
      Record(<<48, 1, 0, 0, 0, 0, 5>>),            \* charger_status, state 5
      Record(<<253, 2, 0, 0, 0>>),                 \* debug_message, no payload
      Record(<<153, 255, 15, 0, 0, 254, 77, 254, 1, 7>>), \* escaped 0xb2 and 0xfe
      Record(<<153, 1, 0, 0, 0, 254, 0>>),         \* the marker before 0x00
      Record(<<153, 1, 0, 0, 0, 178>>),            \* a delimiter byte in a payload
      <<0>> }                                      \* a stray byte between records

RECURSIVE Flatten(_)
Flatten(ss) == IF ss = <<>> THEN <<>> ELSE Head(ss) \o Flatten(Tail(ss))

\* The header of an MBB file of the given revision, up to the end of the
\* model field of Rev0 (0x282): the log-type tag 'MBB' at 0x000, the VIN at
\* 0x240 (Rev0) or 0x252 (Rev1), zero bytes elsewhere. A shorter file does
\* not pass get_version_and_header.
HEADER_LENGTH == 642

FileHeader(version) ==
    LET vin_offset == IF version = REV0 THEN 576 ELSE 594
    IN [i \in 1..HEADER_LENGTH |->
           IF i <= 3 THEN <<77, 66, 66>>[i]
           ELSE IF i > vin_offset /\ i <= vin_offset + vin_length THEN VinBase(vin_length)[i - vin_offset]
           ELSE 0]

\* struct.pack('<L', n)
LE32(n) == <<n % 256, (n \div 256) % 256, (n \div 65536) % 256, (n \div 16777216) % 256>>

ClaimedCounts == {3}

\* The files of the model: no entries header; an entries header cut off by
\* the end of the file; an entries header whose start and end offsets are
\* record boundaries of the data region or lie past the end of the file.
RawFiles(version) ==
    UNION { LET data == Flatten(pieces)
                header == FileHeader(version)
                begin == HEADER_LENGTH + 16
                mid == begin + (IF pieces = <<>> THEN 0 ELSE Len(pieces[1]))
                eof == begin + Len(data)
            IN {header \o data, header \o data \o EntriesHeader}
               \cup { header \o EntriesHeader \o LE32(end) \o LE32(start) \o LE32(claimed) \o data :
                        <<start, end, claimed>> \in {begin, mid, eof} \X {begin, mid, eof, eof + 3}
                                                    \X ClaimedCounts }
          : pieces \in UNION {[1..k -> RecordTemplates] : k \in 0..MaxRecords} }

\* Reference bytes read from the file at 0x0a and 0x0c.
FenceBytes == {0, 162}

\* Two payloads of a run-status record: 25C/20C, 80%, 100.000V, ..., and one
\* with large and negative fields and an unknown module state.
RunStatusPayloads ==
    { <<25, 20, 80, 0, 160, 134, 1, 0, 255, 255, 30, 0, 16, 39, 0, 0, 246, 255, 2, 100, 0,
        236, 255, 57, 48, 0, 0>>,
      <<200, 1, 100, 0, 255, 255, 255, 127, 0, 128, 255, 127, 255, 255, 9, 9, 1, 0, 7, 255, 255,
        0, 128, 255, 255, 255, 127>> }

\* Timestamps of records: not real ones (0, 0xfff), the first real one, the
\* ones the offset of -7 h moves before and onto the epoch, and leap days,
\* ends of years and of centuries up to 2038.
EventTimestamps ==
    {0, 4095, 4096, 25199, 25200, 68256000, 951782400, 951868799, 951868800, 1078099199,
     1356998399, 1709251199, 1709251200, 2147000000}

\* The event logs of SpecEntry, one record each: run-status records cut after
\* every payload length, key-state records of every timestamp, a key-state
\* record cut inside its header, one whose timestamp holds an escaped 0xfe,
\* and one whose payload holds the marker before 0x00.
EntryLogs ==
    {Record(<<44, 1, 0, 0, 0>> \o Slice(payload, 0, n)) :
        payload \in RunStatusPayloads, n \in 0..MaxPayloadLen}
    \cup {Record(<<9>> \o LE32(t) \o <<1>>) : t \in EventTimestamps}
    \cup {Record(Slice(<<9, 0, 16, 0, 0, 1>>, 0, n)) : n \in 1..6}
    \cup {Record(<<9, 254, 1, 255, 15, 0, 1>>), Record(<<153, 1, 0, 0, 0, 254, 0>>)}

\* The tokens generated Rev2 messages are made of: texts and the separators
\* of the rules of Gen3.payload_to_entry.
MessageTokens ==
    { <<69>>,   \* 'E'
      <<58, 32>>,   \* ': '
      <<46, 32>>,   \* '. '
      <<44, 32>>,   \* ', '
      <<32>>,   \* ' '
      <<107>>,   \* 'k'
      <<118, 49>>,   \* 'v1'
      <<32, 61, 32>>,   \* ' = '
      <<32, 102, 114, 111, 109, 32>>,   \* ' from '
      <<32, 116, 111, 32>>,   \* ' to '
      <<73, 95, 40>>,   \* 'I_('
      <<41>>,   \* ')'
      <<32, 40>> }  \* ' ('

\* A Rev2 record: the timestamp 1600000000 (big-endian), the three bytes
\* before the text, the text and a tail.
Gen3Payload(text, tail) == <<95, 94, 16, 0, 0, 1, 0>> \o text \o tail

\* Messages of the log with their secondary rules, a text that ends at a
\* NUL and is followed by uninterpreted data, and records cut inside their
\* header.
SampleGen3Payloads ==
    { Gen3Payload(<<67, 111, 110, 116, 97, 99, 116, 111, 114, 32, 67, 108, 111, 115, 101, 100, 58, 32, 118, 109, 111, 100, 32, 53, 56, 46, 50, 86, 44, 32, 105, 109, 111, 100, 32, 51, 65>>, <<>>),   \* 'Contactor Closed: vmod 58.2V, imod 3A'
      Gen3Payload(<<69, 58, 32, 97, 32, 49, 44, 32, 97, 32, 50>>, <<>>),   \* 'E: a 1, a 2'
      Gen3Payload(<<69, 58, 32, 107, 58, 32, 118, 44, 32, 120, 32, 121, 44, 32, 122, 44, 32, 97, 32, 98, 32, 99>>, <<>>),   \* 'E: k: v, x y, z, a b c'
      Gen3Payload(<<69, 58, 32, 86, 95, 40, 97, 58, 32, 49, 44, 32, 98, 58, 32, 50, 41, 109, 86, 44>>, <<>>),   \* 'E: V_(a: 1, b: 2)mV,'
      Gen3Payload(<<69, 58, 32, 79, 108, 100, 58, 32, 48, 120, 51, 32, 78, 101, 119, 58, 32, 48, 120, 49, 48>>, <<>>),   \* 'E: Old: 0x3 New: 0x10'
      Gen3Payload(<<73, 95, 40, 97, 58, 32, 49, 44, 32, 98, 58, 32, 50, 41, 65>>, <<>>),   \* 'I_(a: 1, b: 2)A'
      Gen3Payload(<<97, 32, 102, 114, 111, 109, 32, 98, 32, 116, 111, 32, 99, 32, 116, 111, 32, 100>>, <<>>),   \* 'a from b to c to d'
      Gen3Payload(<<110, 97, 109, 101, 32, 40, 100, 101, 116, 97, 105, 108, 41, 32, 109, 111, 114, 101>>, <<>>),   \* 'name (detail) more'
      Gen3Payload(<<65, 58, 32, 98, 46, 32, 67, 58, 32, 100>>, <<>>),   \* 'A: b. C: d'
      Gen3Payload(<<69, 118, 101, 110, 116, 32, 61, 32, 120, 32, 49, 44, 32, 32, 121, 32, 50, 32>>, <<>>),   \* 'Event = x 1,  y 2 '
      Gen3Payload(<<69, 58, 32, 97, 32, 49, 44, 32, 98, 32, 50, 44, 32, 97, 32, 51>>, <<>>),   \* 'E: a 1, b 2, a 3'
      Gen3Payload(<<70, 97, 117, 108, 116, 58, 32, 107, 58, 32, 118, 0, 106, 117, 110, 107>>, <<0, 178, 1, 2>>) }
    \cup {<<>>, <<95, 94, 16>>, <<95, 94, 16, 0, 0, 1>>}

Gen3Payloads ==
    {Gen3Payload(Flatten(tokens), <<>>) :
        tokens \in UNION {[1..n -> MessageTokens] : n \in 0..MaxTokens}}
    \cup SampleGen3Payloads

\* The tags of a file at 0x000 and at 0x00d: the two known ones, another
\* printable text and NUL bytes, which are not printable.
LogTypeTags == {log_type_mbb, log_type_bms, <<88, 89, 90>>, <<0, 0, 0>>}

\* What a file holds where a VIN candidate is read: nothing, a VIN, or a
\* VIN with DEL, which is not printable, as its last character.
VinSlots == {"none", "vin", "bad"}

VinSlot(slot, i) ==
    IF slot = "none" THEN 0
    ELSE IF slot = "bad" /\ i = vin_length THEN 127
    ELSE VinBase(vin_length)[i]

\* The lengths of the files: one byte, the first bytes of the header, and
\* lengths around the ends of the fields get_version_and_header reads
\* (0x240 + 17 = 593, 0x27f + 3 = 642, 0x331 + 8 = 825, the last two less
\* the 32 bytes of padding).
HeaderLengths == {1, 100, 593, 610, 642, 800}

\* The codes at 0x4 of a BMS log: the three known ones and another.
VersionCodes == {182, 222, 121, 0}

\* 'log.bin', 'x_mbb.bin', 'Bms0.bin'
FilePaths == {<<108, 111, 103, 46, 98, 105, 110>>,
              <<120, 95, 109, 98, 98, 46, 98, 105, 110>>,
              <<66, 109, 115, 48, 46, 98, 105, 110>>}

\* A file of len bytes: the tags, the version code and the VIN candidates at
\* their offsets, zero elsewhere.
HeaderFile(len, tag0, tag13, code, v0, v1, v2) ==
    [i \in 1..len |->
        IF i <= 3 THEN tag0[i]
        ELSE IF i = 5 THEN code
        ELSE IF i > 13 /\ i <= 16 THEN tag13[i - 13]
        ELSE IF i > 41 /\ i <= 41 + vin_length THEN VinSlot(v2, i - 41)
        ELSE IF i > 576 /\ i <= 576 + vin_length THEN VinSlot(v0, i - 576)
        ELSE IF i > 594 /\ i <= 594 + vin_length THEN VinSlot(v1, i - 594)
        ELSE 0]

\* The files of the given lengths.
HeaderFiles(lengths) ==
    {HeaderFile(len, tag0, tag13, code, v0, v1, v2) :
        len \in lengths, tag0 \in LogTypeTags, tag13 \in LogTypeTags \ {log_type_bms},
        code \in VersionCodes, v0 \in VinSlots, v1 \in {"none", "vin"}, v2 \in {"none", "vin"}}

\* The buffers of SpecUnpack: every sequence of the two bytes up to the
\* longest length.
Buffers == UNION {[1..n -> {1, 255}] : n \in 0..MaxBuffLen}

\* The sizes of the types of BinaryTools.TYPES: one item of 1, 2, 4 or 8
\* bytes.
TypeSizes == {1, 2, 4, 8}

\* The decode sessions that run side by side.
Sessions == {1, 2}

\* A Rev0 or Rev1 file: the header, the entries header with the bounds of
\* the records and a claimed count of 3, and the records.
RingFile(version, records) ==
    FileHeader(version) \o EntriesHeader \o LE32(HEADER_LENGTH + 16 + Len(Flatten(records)))
    \o LE32(HEADER_LENGTH + 16) \o LE32(3) \o Flatten(records)

\* A Rev2 record: timestamp, fencepost with its counter value, text, NUL.
Gen3Event(seconds, value, text) == <<95, 94, 16, seconds, 162, value, 162>> \o text \o <<0>>

\* A Rev2 file of 580 bytes: the fencepost bytes 0xa2 at 0x0a and 0x0c with
\* a newline between them, which the regular expression does not match, the
\* VIN at 0x029 and the records from 0x208 on.
Gen3File(events) ==
    [i \in 1..580 |->
        IF i \in {11, 13} THEN 162
        ELSE IF i = 12 THEN 10
        ELSE IF i > 41 /\ i <= 41 + vin_length THEN VinBase(vin_length)[i - 41]
        ELSE IF i > 520 /\ i <= 520 + Len(Flatten(events)) THEN Flatten(events)[i - 520]
        ELSE 0]

\* The files of the sessions: a Rev0 log of two records, a Rev1 log whose
\* second record makes parse_entry raise, a Rev2 log of two records and a
\* file of one byte, each under its own name.
SessionFiles(sessions) ==
    { [path |-> <<97, 95, 109, 98, 98, 46, 98, 105, 110>>,
       data |-> RingFile(REV0, <<Record(<<9, 0, 0, 0, 94, 1>>), Record(<<153, 1, 0, 0, 0, 170>>)>>)],
      [path |-> <<98, 95, 77, 98, 98, 46, 98, 105, 110>>,
       data |-> RingFile(REV1, <<Record(<<253, 2, 0, 0, 0>>), Record(<<153, 1, 0, 0, 0, 254, 0>>)>>)],
      [path |-> <<99, 95, 109, 98, 98, 46, 98, 105, 110>>,
       data |-> Gen3File(<<Gen3Event(0, 2, <<67, 111, 110, 116, 97, 99, 116, 111, 114, 32, 67, 108, 111, 115, 101, 100, 58, 32, 118, 109, 111, 100, 32, 53, 56, 46, 50, 86, 44, 32, 105, 109, 111, 100, 32, 51, 65>>),
                           Gen3Event(9, 3, <<82, 105, 100, 105, 110, 103>>)>>)],
      [path |-> <<100, 95, 98, 109, 115, 46, 98, 105, 110>>, data |-> <<1>>] }

\* utc_offset_hours of parse_log: none (GMT-7), 0 and 2.
TimezoneOffsets == {-25200, 0, 7200}

NotRun == [run |-> FALSE, raised |-> FALSE, data |-> <<>>]

Ran(result) == [run |-> TRUE, raised |-> result.raised, data |-> result.data]

EscIdle ==
    /\ esc_in = <<>>
    /\ esc_reserved = {}
    /\ esc_out = NotRun
    /\ esc_rt = NotRun

VinIdle ==
    /\ vin_pc = "idle"
    /\ vin_in = <<>>
    /\ vin_out = FALSE

FenceIdle ==
    /\ fp_b0 = 0
    /\ fp_b2 = 0
    /\ fp_prev = <<>>
    /\ fp_cur = <<>>
    /\ fp_steps = 0

NoRing == [found |-> FALSE, entries_end |-> 0, entries_start |-> 0,
           claimed_entries_count |-> 0, entries_data_begin |-> 0]

NoCall == [called |-> FALSE, address_in |-> 0, unhandled_in |-> 0, raised |-> FALSE,
           address |-> 0, length |-> 0, message_type |-> 0, message |-> <<>>,
           decoder_raised |-> FALSE, entry |-> NoEntry, unhandled |-> 0]

NotDecoded == [decoded |-> FALSE, raised |-> FALSE, event |-> <<>>, time |-> 0, pairs |-> <<>>,
               conditions |-> <<>>, uninterpreted |-> <<>>,
               primary |-> [event_message |-> <<>>, event_conditions |-> <<>>, conditions |-> <<>>]]

Gen3Idle ==
    /\ gen3_payload = <<>>
    /\ gen3_entry = NotDecoded

NoHeader == [returned |-> FALSE, raised |-> FALSE, log_version |-> REV0, header_info |-> <<>>]

HeaderIdle ==
    /\ hdr_path = <<>>
    /\ hdr_data = <<>>
    /\ hdr_pc = "idle"
    /\ hdr_log_type = <<>>
    /\ hdr_result = NoHeader

NotUnpacked == [called |-> FALSE, raised |-> FALSE, bytes |-> <<>>]

UnpackIdle ==
    /\ up_buff = <<>>
    /\ up_address = 0
    /\ up_size = 0
    /\ up_result = NotUnpacked

SessionsIdle ==
    /\ ses_in = <<>>
    /\ ses_pc = <<>>
    /\ ses_log = <<>>
    /\ ses_data = <<>>
    /\ ses_emit = <<>>

SegmentIdle ==
    /\ seg_raw = <<>>
    /\ seg_pc = "idle"
    /\ seg_start = 0
    /\ seg_value = 0
    /\ seg_count = 0
    /\ seg_log = <<>>
    /\ seg_marks = <<>>

ExtIdle == Gen3Idle /\ HeaderIdle /\ UnpackIdle /\ SessionsIdle /\ SegmentIdle

RingIdle ==
    /\ raw_log = <<>>
    /\ log_version = REV0
    /\ timezone_offset = 0
    /\ pc = "idle"
    /\ raised_in = ""
    /\ ring = NoRing
    /\ entries = <<>>
    /\ entries_count = 0
    /\ read_pos = 0
    /\ entry_num = 0
    /\ unhandled = 0
    /\ unknown_entries = 0
    /\ unknown = <<>>
    /\ output = <<>>
    /\ last = NoCall

BaseIdle == EscIdle /\ VinIdle /\ FenceIdle /\ RingIdle

(***************************************************************************)
(* SpecEscape: the escape codec on every block up to MaxBlockLen bytes.    *)
(***************************************************************************)
InitEscape ==
    /\ esc_in \in BlocksUpTo(MaxBlockLen)
    /\ esc_reserved \in ReservedSets
    /\ esc_out = NotRun
    /\ esc_rt = NotRun
    /\ VinIdle
    /\ FenceIdle
    /\ RingIdle
    /\ ExtIdle

\* unescaped_block = BinaryTools.unescape_block(block)
UnescapeBlock ==
    /\ ~esc_out.run
    /\ esc_out' = Ran(unescape_block(esc_in))
    /\ UNCHANGED <<esc_in, esc_reserved, esc_rt, vinVars, fpVars, ringVars, extVars>>

\* BinaryTools.unescape_block(escape(block)): decode after one escape pass.
EscapeRoundTrip ==
    /\ ~esc_rt.run
    /\ esc_rt' = Ran(unescape_block(escape_block(esc_in, esc_reserved)))
    /\ UNCHANGED <<esc_in, esc_reserved, esc_out, vinVars, fpVars, ringVars, extVars>>

NextEscape == UnescapeBlock \/ EscapeRoundTrip

SpecEscape == InitEscape /\ [][NextEscape]_vars

(***************************************************************************)
(* SpecVin: is_vin on candidate strings.                                   *)
(***************************************************************************)
InitVin ==
    /\ vin_pc = "input"
    /\ vin_in \in VinCandidates
    /\ vin_out = FALSE
    /\ EscIdle
    /\ FenceIdle
    /\ RingIdle
    /\ ExtIdle

IsVin ==
    /\ vin_pc = "input"
    /\ vin_out' = is_vin(vin_in)
    /\ vin_pc' = "done"
    /\ UNCHANGED <<vin_in, escVars, fpVars, ringVars, extVars>>

NextVin == IsVin

SpecVin == InitVin /\ [][NextVin]_vars

(***************************************************************************)
(* SpecFence: the fencepost counter stepped from every byte value.         *)
(***************************************************************************)
InitFence ==
    /\ fp_b0 \in FenceBytes
    /\ fp_b2 \in FenceBytes
    /\ \E v \in 0..255 : fp_cur = event_fencepost(fp_b0, v, fp_b2)
    /\ fp_prev = <<>>
    /\ fp_steps = 0
    /\ EscIdle
    /\ VinIdle
    /\ RingIdle
    /\ ExtIdle

\* next_fencepost = self.next_event_fencepost(current_fencepost)
StepFencepost ==
    /\ fp_cur # <<>>
    /\ fp_steps < MaxFenceSteps
    /\ fp_prev' = fp_cur
    /\ fp_cur' = next_event_fencepost(fp_b0, fp_b2, fp_cur)
    /\ fp_steps' = fp_steps + 1
    /\ UNCHANGED <<fp_b0, fp_b2, escVars, vinVars, ringVars, extVars>>

NextFence == StepFencepost

SpecFence == InitFence /\ [][NextFence]_vars

(***************************************************************************)
(* Spec: parse_log on a Rev0/Rev1 file: LogData.get_entries_and_counts,    *)
(* then the decode loop of LogData.emit_zero_compatible_decoding.          *)
(***************************************************************************)
\* The output from the MBB (via serial port) lists time as GMT-7
MBB_TIMESTAMP_GMT_OFFSET == -25200

Init ==
    /\ log_version \in {REV0, REV1}
    /\ raw_log \in RawFiles(log_version)
    /\ timezone_offset = MBB_TIMESTAMP_GMT_OFFSET
    /\ pc = "loaded"
    /\ raised_in = ""
    /\ ring = NoRing
    /\ entries = <<>>
    /\ entries_count = 0
    /\ read_pos = 0
    /\ entry_num = 0
    /\ unhandled = 0
    /\ unknown_entries = 0
    /\ unknown = <<>>
    /\ output = <<>>
    /\ last = NoCall
    /\ EscIdle
    /\ VinIdle
    /\ FenceIdle
    /\ ExtIdle

\* LogData.get_entries_and_counts for log_version < REV2. Without an entries
\* header and without a delimiter byte entries_start is None, and
\* "entries_start >= entries_end" raises TypeError.
GetEntriesAndCounts ==
    /\ pc = "loaded"
    /\ log_version < REV2
    /\ \E h \in {entries_header(raw_log)} :
          /\ ring' = h
          /\ IF h.entries_start = None
             THEN /\ pc' = "raised"
                  /\ raised_in' = "get_entries_and_counts"
                  /\ UNCHANGED <<entries, entries_count>>
             ELSE \E event_log \in {ring_event_log(raw_log, h.entries_start, h.entries_end,
                                                   h.entries_data_begin)} :
                     /\ entries' = event_log
                     /\ entries_count' = count_entries(event_log, h.claimed_entries_count)
                     /\ pc' = "emit"
                     /\ UNCHANGED raised_in
    /\ UNCHANGED <<raw_log, log_version, timezone_offset, read_pos, entry_num, unhandled,
                   unknown_entries, unknown, output, last, escVars, vinVars, fpVars, extVars>>

\* The line written for an entry: which of the three formats, and its fields.
OutputEntry(entry, line) ==
    [line |-> line, time |-> entry.time, event |-> entry.event,
     conditions |-> entry.conditions,
     layout |-> IF entry.has_conditions /\ entry.conditions # <<>>
                THEN (IF Contains(entry.conditions, <<63, 63, 63>>) THEN "unknown" ELSE "conditions")
                ELSE "event"]

\* One iteration of "for entry_num in range(self.entries_count)".
EmitEntry ==
    /\ pc = "emit"
    /\ entry_num < entries_count
    /\ \E r \in {parse_entry(entries, read_pos, unhandled, timezone_offset)} :
       LET is_unknown == /\ r.entry.has_conditions
                         /\ r.entry.conditions # <<>>
                         /\ Contains(r.entry.conditions, <<63, 63, 63>>)
           u == r.entry.conditions[1]
       IN /\ last' = [called |-> TRUE, address_in |-> read_pos, unhandled_in |-> unhandled,
                      raised |-> r.raised, address |-> r.address, length |-> r.length,
                      message_type |-> r.message_type, message |-> r.message,
                      decoder_raised |-> r.decoder_raised, entry |-> r.entry,
                      unhandled |-> r.unhandled]
          /\ IF r.raised
             THEN /\ pc' = "raised"
                  /\ raised_in' = "parse_entry"
                  /\ UNCHANGED <<read_pos, entry_num, unhandled, unknown_entries, unknown, output>>
             ELSE /\ unhandled' = r.unhandled
                  /\ unknown_entries' = IF is_unknown THEN unknown_entries + 1 ELSE unknown_entries
                  /\ unknown' = IF is_unknown /\ (\A i \in 1..Len(unknown) : unknown[i] # u)
                                THEN Append(unknown, u) ELSE unknown
                  /\ output' = Append(output, OutputEntry(r.entry, entry_num + 1))
                  /\ read_pos' = read_pos + r.length
                  /\ entry_num' = entry_num + 1
                  /\ UNCHANGED <<pc, raised_in>>
    /\ UNCHANGED <<raw_log, log_version, timezone_offset, ring, entries, entries_count,
                   escVars, vinVars, fpVars, extVars>>

\* The loop is over: the output file is closed and the counters are logged.
EmitDone ==
    /\ pc = "emit"
    /\ entry_num = entries_count
    /\ pc' = "done"
    /\ UNCHANGED <<raw_log, log_version, timezone_offset, raised_in, ring, entries,
                   entries_count, read_pos, entry_num, unhandled, unknown_entries, unknown,
                   output, last, escVars, vinVars, fpVars, extVars>>

Next == GetEntriesAndCounts \/ EmitEntry \/ EmitDone

Spec == Init /\ [][Next]_vars

(***************************************************************************)
(* SpecEntry: one call of Gen2.parse_entry on an event log of one record.  *)
(***************************************************************************)
InitEntry ==
    /\ entries \in EntryLogs
    /\ read_pos = 0
    /\ unhandled \in {0, 3}
    /\ timezone_offset \in TimezoneOffsets
    /\ pc = "parse_entry"
    /\ raised_in = ""
    /\ raw_log = <<>>
    /\ log_version = REV0
    /\ ring = NoRing
    /\ entries_count = 0
    /\ entry_num = 0
    /\ unknown_entries = 0
    /\ unknown = <<>>
    /\ output = <<>>
    /\ last = NoCall
    /\ EscIdle
    /\ VinIdle
    /\ FenceIdle
    /\ ExtIdle

\* (length, entry_payload, unhandled) = Gen2.parse_entry(entries, read_pos, unhandled, ...)
ParseEntry ==
    /\ pc = "parse_entry"
    /\ \E r \in {parse_entry(entries, read_pos, unhandled, timezone_offset)} :
          /\ last' = [called |-> TRUE, address_in |-> read_pos, unhandled_in |-> unhandled,
                      raised |-> r.raised, address |-> r.address, length |-> r.length,
                      message_type |-> r.message_type, message |-> r.message,
                      decoder_raised |-> r.decoder_raised, entry |-> r.entry,
                      unhandled |-> r.unhandled]
          /\ pc' = IF r.raised THEN "raised" ELSE "returned"
          /\ raised_in' = IF r.raised THEN "parse_entry" ELSE raised_in
          /\ unhandled' = r.unhandled
    /\ UNCHANGED <<raw_log, log_version, timezone_offset, ring, entries, entries_count,
                   read_pos, entry_num, unknown_entries, unknown, output,
                   escVars, vinVars, fpVars, extVars>>

NextEntry == ParseEntry

SpecEntry == InitEntry /\ [][NextEntry]_vars

(***************************************************************************)
(* SpecGen3: Gen3.payload_to_entry on one Rev2 record.                     *)
(***************************************************************************)
InitGen3 ==
    /\ gen3_payload \in Gen3Payloads
    /\ gen3_entry = NotDecoded
    /\ BaseIdle
    /\ HeaderIdle
    /\ UnpackIdle
    /\ SessionsIdle
    /\ SegmentIdle

\* payload_string as payload_to_entry computes it
payload_string_of(payload) == strip(decode_str(BeforeNul(SliceFrom(payload, 7))))

\* entry = Gen3.payload_to_entry(entry_payload); the state keeps, beside the
\* Entry, the locals event_message, event_conditions and conditions as they
\* are after the first cascade.
PayloadToEntry ==
    /\ ~gen3_entry.decoded
    /\ \E e \in {payload_to_entry(gen3_payload)} :
          gen3_entry' = [decoded |-> TRUE, raised |-> e.raised, event |-> e.event,
                         time |-> e.time, pairs |-> e.pairs, conditions |-> e.conditions,
                         uninterpreted |-> e.uninterpreted,
                         primary |-> IF e.raised THEN Decomposed(<<>>, <<>>, <<>>)
                                     ELSE primary_rules(payload_string_of(gen3_payload))]
    /\ UNCHANGED <<gen3_payload, baseVars, hdrVars, unpackVars, sesVars, segVars>>

NextGen3 == PayloadToEntry

SpecGen3 == InitGen3 /\ [][NextGen3]_vars

(***************************************************************************)
(* SpecHeader: LogFile(file_path) and LogData.get_version_and_header.      *)
(***************************************************************************)
InitHeader ==
    /\ hdr_path \in FilePaths
    /\ hdr_data \in HeaderFiles(HeaderLengths)
    /\ hdr_pc = "opened"
    /\ hdr_log_type = <<>>
    /\ hdr_result = NoHeader
    /\ BaseIdle
    /\ Gen3Idle
    /\ UnpackIdle
    /\ SessionsIdle
    /\ SegmentIdle

\* LogFile.__init__: self.log_type = self.get_log_type()
GetLogType ==
    /\ hdr_pc = "opened"
    /\ hdr_log_type' = get_log_type(hdr_data, hdr_path)
    /\ hdr_pc' = "typed"
    /\ UNCHANGED <<hdr_path, hdr_data, hdr_result, baseVars, gen3Vars, unpackVars, sesVars, segVars>>

\* LogData.__init__: self.log_version, self.header_info =
\* self.get_version_and_header(log_file)
GetVersionAndHeader ==
    /\ hdr_pc = "typed"
    /\ \E h \in {get_version_and_header(hdr_data, hdr_log_type)} :
          /\ hdr_result' = [returned |-> ~h.raised, raised |-> h.raised,
                            log_version |-> h.log_version, header_info |-> h.header_info]
          /\ hdr_pc' = IF h.raised THEN "raised" ELSE "classified"
    /\ UNCHANGED <<hdr_path, hdr_data, hdr_log_type, baseVars, gen3Vars, unpackVars, sesVars, segVars>>

NextHeader == GetLogType \/ GetVersionAndHeader

SpecHeader == InitHeader /\ [][NextHeader]_vars

(***************************************************************************)
(* SpecUnpack: BinaryTools.unpack of one item at an address.               *)
(***************************************************************************)
InitUnpack ==
    /\ up_buff \in Buffers
    /\ up_address \in 0..(MaxBuffLen + UNPACK_PADDING + 1)
    /\ up_size \in TypeSizes
    /\ up_result = NotUnpacked
    /\ BaseIdle
    /\ Gen3Idle
    /\ HeaderIdle
    /\ SessionsIdle
    /\ SegmentIdle

\* BinaryTools.unpack(type_name, buff, address): the bytes struct.unpack_from
\* converts, or struct.error.
unpack(buff, address, size) ==
    IF unpack_fails(buff, address, size) THEN [called |-> TRUE, raised |-> TRUE, bytes |-> <<>>]
    ELSE [called |-> TRUE, raised |-> FALSE, bytes |-> unpack_char(buff, address, size)]

Unpack ==
    /\ ~up_result.called
    /\ up_result' = unpack(up_buff, up_address, up_size)
    /\ UNCHANGED <<up_buff, up_address, up_size, baseVars, gen3Vars, hdrVars, sesVars, segVars>>

NextUnpack == Unpack

SpecUnpack == InitUnpack /\ [][NextUnpack]_vars

(***************************************************************************)
(* SpecSessions: two calls of parse_log, each with its own LogFile and     *)
(* LogData, with their steps interleaved.                                  *)
(***************************************************************************)
\* The objects of a session as the first session's, whoever asks.
session_of_first(objects, s) == objects[1]

\* self: the object of the session among the objects of all sessions
session_of(objects, s) == objects[s]

NoLogFile == [data |-> <<>>, log_type |-> <<>>]

NoLogData == [log_version |-> REV0, header_info |-> <<>>, entries_count |-> 0, entries |-> <<>>]

NoEmit == [read_pos |-> 0, entry_num |-> 0, unhandled |-> 0, output |-> <<>>]

InitSessions ==
    /\ ses_in \in [Sessions -> SessionFiles(Sessions)]
    /\ ses_pc = [s \in Sessions |-> "new"]
    /\ ses_log = [s \in Sessions |-> NoLogFile]
    /\ ses_data = [s \in Sessions |-> NoLogData]
    /\ ses_emit = [s \in Sessions |-> NoEmit]
    /\ BaseIdle
    /\ Gen3Idle
    /\ HeaderIdle
    /\ UnpackIdle
    /\ SegmentIdle

\* LogFile.reload: self._data = bytearray(f.read())
SessionReload(s) ==
    /\ ses_pc[s] = "new"
    /\ ses_log' = [ses_log EXCEPT ![s] = [data |-> session_of(ses_in, s).data, log_type |-> <<>>]]
    /\ ses_pc' = [ses_pc EXCEPT ![s] = "loaded"]
    /\ UNCHANGED <<ses_in, ses_data, ses_emit, baseVars, gen3Vars, hdrVars, unpackVars, segVars>>

\* LogFile.__init__: self.log_type = self.get_log_type()
SessionGetLogType(s) ==
    /\ ses_pc[s] = "loaded"
    /\ ses_log' = [ses_log EXCEPT ![s] =
                      [data |-> session_of(ses_log, s).data,
                       log_type |-> get_log_type(session_of(ses_log, s).data,
                                                 session_of(ses_in, s).path)]]
    /\ ses_pc' = [ses_pc EXCEPT ![s] = "typed"]
    /\ UNCHANGED <<ses_in, ses_data, ses_emit, baseVars, gen3Vars, hdrVars, unpackVars, segVars>>

\* LogData.__init__: self.log_version, self.header_info =
\* self.get_version_and_header(log_file)
SessionGetVersionAndHeader(s) ==
    /\ ses_pc[s] = "typed"
    /\ \E h \in {get_version_and_header(session_of(ses_log, s).data,
                                         session_of(ses_log, s).log_type)} :
          IF h.raised
          THEN /\ ses_pc' = [ses_pc EXCEPT ![s] = "raised in get_version_and_header"]
               /\ UNCHANGED ses_data
          ELSE /\ ses_pc' = [ses_pc EXCEPT ![s] = "classified"]
               /\ ses_data' = [ses_data EXCEPT ![s] =
                                  [log_version |-> h.log_version, header_info |-> h.header_info,
                                   entries_count |-> 0, entries |-> <<>>]]
    /\ UNCHANGED <<ses_in, ses_log, ses_emit, baseVars, gen3Vars, hdrVars, unpackVars, segVars>>

\* LogData.__init__: self.entries_count, self.entries =
\* self.get_entries_and_counts(log_file)
SessionGetEntriesAndCounts(s) ==
    /\ ses_pc[s] = "classified"
    /\ \E e \in {get_entries_and_counts(session_of(ses_log, s).data,
                                         session_of(ses_data, s).log_version)} :
          IF e.raised \/ e.hangs
          THEN /\ ses_pc' = [ses_pc EXCEPT ![s] = IF e.raised THEN "raised in get_entries_and_counts"
                                                  ELSE "hangs"]
               /\ UNCHANGED ses_data
          ELSE /\ ses_pc' = [ses_pc EXCEPT ![s] = "emit"]
               /\ ses_data' = [ses_data EXCEPT ![s] =
                                  [log_version |-> session_of(ses_data, s).log_version,
                                   header_info |-> session_of(ses_data, s).header_info,
                                   entries_count |-> e.entries_count, entries |-> e.event_log]]
    /\ UNCHANGED <<ses_in, ses_log, ses_emit, baseVars, gen3Vars, hdrVars, unpackVars, segVars>>

\* The number of turns of the decode loop: range(self.entries_count) for
\* Rev0 and Rev1, enumerate(self.entries) for Rev2.
emit_turns(log_data) ==
    IF log_data.log_version < REV2 THEN log_data.entries_count ELSE Len(log_data.entries)

\* The line of a Rev2 entry; enumerate counts from 0.
OutputGen3Entry(entry, line) ==
    [line |-> line, time |-> entry.time, event |-> entry.event,
     conditions |-> entry.conditions, uninterpreted |-> entry.uninterpreted]

\* The locals of the decode loop after a turn that gave the line.
emit_next(emit, length, unhandled_after, line) ==
    [read_pos |-> emit.read_pos + length, entry_num |-> emit.entry_num + 1,
     unhandled |-> unhandled_after, output |-> Append(emit.output, line)]

\* One turn of the decode loop of emit_zero_compatible_decoding.
SessionEmitEntry(s) ==
    /\ ses_pc[s] = "emit"
    /\ session_of(ses_emit, s).entry_num < emit_turns(session_of(ses_data, s))
    /\ \E log_data \in {session_of(ses_data, s)}, emit \in {session_of(ses_emit, s)} :
          IF log_data.log_version < REV2
          THEN \E r \in {parse_entry(log_data.entries, emit.read_pos, emit.unhandled,
                                      MBB_TIMESTAMP_GMT_OFFSET)} :
                  IF r.raised
                  THEN /\ ses_pc' = [ses_pc EXCEPT ![s] = "raised in emit"]
                       /\ UNCHANGED ses_emit
                  ELSE /\ ses_emit' = [ses_emit EXCEPT ![s] =
                                          emit_next(emit, r.length, r.unhandled,
                                                    OutputEntry(r.entry, emit.entry_num + 1))]
                       /\ UNCHANGED ses_pc
          ELSE \E entry \in {payload_to_entry(log_data.entries[emit.entry_num + 1])} :
                  IF entry.raised
                  THEN /\ ses_pc' = [ses_pc EXCEPT ![s] = "raised in emit"]
                       /\ UNCHANGED ses_emit
                  ELSE /\ ses_emit' = [ses_emit EXCEPT ![s] =
                                          emit_next(emit, 0, emit.unhandled,
                                                    OutputGen3Entry(entry, emit.entry_num))]
                       /\ UNCHANGED ses_pc
    /\ UNCHANGED <<ses_in, ses_log, ses_data, baseVars, gen3Vars, hdrVars, unpackVars, segVars>>

\* The decode loop is over and the output file is closed.
SessionEmitDone(s) ==
    /\ ses_pc[s] = "emit"
    /\ session_of(ses_emit, s).entry_num = emit_turns(session_of(ses_data, s))
    /\ ses_pc' = [ses_pc EXCEPT ![s] = "done"]
    /\ UNCHANGED <<ses_in, ses_log, ses_data, ses_emit, baseVars, gen3Vars, hdrVars, unpackVars, segVars>>

NextSessions ==
    \E s \in Sessions :
        \/ SessionReload(s)
        \/ SessionGetLogType(s)
        \/ SessionGetVersionAndHeader(s)
        \/ SessionGetEntriesAndCounts(s)
        \/ SessionEmitEntry(s)
        \/ SessionEmitDone(s)

SpecSessions == InitSessions /\ [][NextSessions]_vars

(***************************************************************************)
(* SpecSegment: LogData.get_gen3_entries on Rev2 buffers, one turn of its  *)
(* outer loop at a time.                                                   *)
(***************************************************************************)
\* The number of pieces that follow the head of a generated buffer.
MaxSegChunks == 2

\* The reference bytes at 0x0a and 0x0c.
SegFencePairs == {<<162, 162>>, <<161, 163>>}

\* The first counter values: 0 and 0xfe, which the counter never returns to,
\* the newline, the values next to the wraparound, and 1.
SegFirstValues == {0, 1, 10, 253, 254}

SegLeads == {"plain", "early"}

SegChunkKinds == {"next", "skip", "short", "far", "same"}

SegFiller(n) == [i \in 1..n |-> 7]

\* The first 13 bytes: the reference fencepost at 0x0a, alone, or (with the
\* middle byte 200) after a fencepost at offset 1.
SegLead(lead, b0, value, b2) ==
    IF lead = "plain" THEN SegFiller(10) \o <<b0, value, b2>>
    ELSE <<7, b0, value, b2>> \o SegFiller(6) \o <<b0, 200, b2>>

\* The counter value a piece leaves behind.
SegChunkValue(kind, value) ==
    IF kind = "same" THEN value
    ELSE IF kind = "skip" THEN next_fencepost_value(next_fencepost_value(value))
    ELSE next_fencepost_value(value)

\* A piece: a record "Hi" with the next counter value, with the value after
\* the next, a bare fencepost, a record beyond 260 filler bytes, or the
\* current value again beyond 260 filler bytes.
SegChunk(kind, b0, value, b2) ==
    IF kind = "short" THEN <<b0, SegChunkValue(kind, value), b2>>
    ELSE (IF kind \in {"far", "same"} THEN SegFiller(260) ELSE <<>>)
         \o <<95, 94, 16, 0, b0, SegChunkValue(kind, value), b2, 72, 105, 0>>

RECURSIVE SegBody(_, _, _, _)
SegBody(kinds, b0, value, b2) ==
    IF kinds = <<>> THEN <<>>
    ELSE SegChunk(Head(kinds), b0, value, b2)
         \o SegBody(Tail(kinds), b0, SegChunkValue(Head(kinds), value), b2)

\* The buffers get_gen3_entries is given, and one that is too short.
SegBuffers(chunks) ==
    { SegLead(lead, pair[1], value, pair[2]) \o SegBody(kinds, pair[1], value, pair[2]) :
        lead \in SegLeads, pair \in SegFencePairs, value \in SegFirstValues,
        kinds \in UNION {[1..k -> SegChunkKinds] : k \in 0..chunks} }
    \cup {SegFiller(12)}

InitSegment ==
    /\ seg_raw \in SegBuffers(MaxSegChunks)
    /\ seg_pc = "new"
    /\ seg_start = 0
    /\ seg_value = 0
    /\ seg_count = 0
    /\ seg_log = <<>>
    /\ seg_marks = <<>>
    /\ BaseIdle
    /\ Gen3Idle
    /\ HeaderIdle
    /\ UnpackIdle
    /\ SessionsIdle

\* get_gen3_entries up to the loop: the reference bytes, the first match of
\* the regular expression, event_start and current_fencepost. IndexError on
\* a buffer shorter than 13 bytes, ValueError without a match.
SegFirstFencepost ==
    /\ seg_pc = "new"
    /\ IF Len(seg_raw) < 13 \/ first_fencepost_match(seg_raw, seg_raw[11], seg_raw[13]) = None
       THEN /\ seg_pc' = "raised"
            /\ UNCHANGED <<seg_start, seg_value>>
       ELSE /\ seg_pc' = "loop"
            /\ seg_start' = first_fencepost_match(seg_raw, seg_raw[11], seg_raw[13])
            /\ seg_value' = seg_raw[first_fencepost_match(seg_raw, seg_raw[11], seg_raw[13]) + 2]
    /\ UNCHANGED <<seg_raw, seg_count, seg_log, seg_marks, baseVars, gen3Vars, hdrVars, unpackVars, sesVars>>

\* next_event_start = log.index_of_sequence(current_fencepost,
\* start=event_start + 1); event_start moves there when it is found.
seg_event_start(raw, byte0, byte2, event_start, current_value) ==
    IF index_of_sequence_from(raw, event_fencepost(byte0, current_value, byte2),
                              event_start + 1) # None
    THEN index_of_sequence_from(raw, event_fencepost(byte0, current_value, byte2),
                                event_start + 1)
    ELSE event_start

\* event_payload = raw_log[event_start - 4:event_end - 4 if event_end else event_end]
seg_event_payload(raw, event_start, event_end) ==
    IF event_end = None THEN py_slice_from(raw, event_start - 4)
    ELSE py_slice(raw, event_start - 4, event_end - 4)

\* One turn of "while event_start is not None and event_start < entries_end".
\* The search for event_end never ends when the counter cannot return to the
\* current value; the loop is left by break or goes on to the next turn.
SegEvent ==
    /\ seg_pc = "loop"
    /\ seg_start < Len(seg_raw)
    /\ \E event_start \in {seg_event_start(seg_raw, seg_raw[11], seg_raw[13], seg_start, seg_value)} :
       \E found \in {search_event_end(seg_raw, seg_raw[11], seg_raw[13], event_start, seg_value)} :
          /\ seg_start' = event_start
          /\ IF found.hangs
             THEN /\ seg_pc' = "hangs"
                  /\ UNCHANGED <<seg_value, seg_count, seg_log, seg_marks>>
             ELSE /\ seg_log' = Append(seg_log,
                                       seg_event_payload(seg_raw, event_start, found.event_end))
                  /\ seg_marks' = Append(seg_marks,
                                         [event_start |-> event_start, event_end |-> found.event_end])
                  /\ seg_count' = seg_count + 1
                  /\ seg_value' = found.value
                  /\ seg_pc' = IF found.event_end = None \/ found.event_end >= Len(seg_raw)
                               THEN "done" ELSE "loop"
    /\ UNCHANGED <<seg_raw, baseVars, gen3Vars, hdrVars, unpackVars, sesVars>>

NextSegment == SegFirstFencepost \/ SegEvent

SpecSegment == InitSegment /\ [][NextSegment]_vars

(***************************************************************************)
(* Properties of the escape codec (SpecEscape).                            *)
(***************************************************************************)
RECURSIVE PairwiseDecode(_)
\* The left-to-right pair replacement: a marker with a following byte b
\* becomes the single byte 0xfe XOR (b - 1), taken as a byte, and the scan
\* resumes after it; a marker that ends the block stays.
PairwiseDecode(s) ==
    IF s = <<>> THEN <<>>
    ELSE IF Head(s) = ESCAPE_MARKER /\ Len(s) >= 2
         THEN <<BitXor(ESCAPE_MARKER, (s[2] - 1) % 256)>> \o PairwiseDecode(Tail(Tail(s)))
         ELSE <<Head(s)>> \o PairwiseDecode(Tail(s))

RECURSIVE PairsReplaced(_)
PairsReplaced(s) ==
    IF s = <<>> THEN 0
    ELSE IF Head(s) = ESCAPE_MARKER /\ Len(s) >= 2
         THEN 1 + PairsReplaced(Tail(Tail(s)))
         ELSE PairsReplaced(Tail(s))

RECURSIVE MarkerBeforeZero(_)
\* The scan meets a marker whose following byte is 0x00.
MarkerBeforeZero(s) ==
    IF Len(s) < 2 THEN FALSE
    ELSE IF Head(s) = ESCAPE_MARKER
         THEN s[2] = 0 \/ MarkerBeforeZero(Tail(Tail(s)))
         ELSE MarkerBeforeZero(Tail(s))

\* C4: unescape_block replaces every (0xfe, b) pair, scanning left to right,
\* by the single byte 0xfe XOR (b - 1), resumes just after the replaced byte,
\* leaves a final 0xfe unchanged, and its output is shorter than its input by
\* the number of pairs replaced.
C4_UnescapeReplacesEveryPair ==
    esc_out.run =>
        /\ ~esc_out.raised
        /\ esc_out.data = PairwiseDecode(esc_in)
        /\ Len(esc_out.data) = Len(esc_in) - PairsReplaced(esc_in)

\* What unescape_block does: it raises exactly when the scan meets the pair
\* (0xfe, 0x00), and otherwise returns the pairwise decoding.
UnescapeRaisesOnMarkerZero ==
    esc_out.run =>
        /\ esc_out.raised <=> MarkerBeforeZero(esc_in)
        /\ ~esc_out.raised =>
              /\ esc_out.data = PairwiseDecode(esc_in)
              /\ Len(esc_out.data) = Len(esc_in) - PairsReplaced(esc_in)

\* C5: escaping a block with the inverse transform and unescaping the result
\* gives the block back.
C5_EscapeRoundTrip ==
    esc_rt.run => (~esc_rt.raised /\ esc_rt.data = esc_in)

\* A round trip of a block that holds the marker followed by another byte,
\* so that the escape pass wrote a pair and the decoder resumed after it.
C5_Witness ==
    /\ esc_rt.run
    /\ Len(esc_in) >= 2
    /\ esc_in[1] = ESCAPE_MARKER
    /\ Len(escape_block(esc_in, esc_reserved)) > Len(esc_in)

(***************************************************************************)
(* Properties of the VIN validator (SpecVin).                              *)
(***************************************************************************)
\* C6: is_vin(s) is true if and only if s has exactly 17 characters, all of
\* them printable, and starts with "538".
C6_IsVinIff ==
    vin_pc = "done" =>
        (vin_out <=>
            /\ Len(vin_in) = 17
            /\ \A i \in 1..Len(vin_in) :
                  vin_in[i] \in (32..126) \cup (9..13)
            /\ Len(vin_in) >= 3
            /\ vin_in[1] = 53 /\ vin_in[2] = 51 /\ vin_in[3] = 56)

\* The validator accepted a candidate, and rejected candidates of 17
\* characters are among the inputs (a bad prefix, a non-printable character).
C6_Witness ==
    /\ vin_pc = "done"
    /\ vin_out
    /\ \E i \in 4..Len(vin_in) : vin_in[i] = 65

\* '53812345678901234': "538" and 14 digits, 17 characters.
Vin17 == <<53, 51, 56, 49, 50, 51, 52, 53, 54, 55, 56, 57, 48, 49, 50, 51, 52>>

\* '5381234567890123': "538" and 13 digits, 16 characters.
Vin16 == <<53, 51, 56, 49, 50, 51, 52, 53, 54, 55, 56, 57, 48, 49, 50, 51>>

\* C7 as stated: the validator rejects "53812345678901234" and accepts
\* "5381234567890123".
C7_Original ==
    vin_pc = "done" =>
        /\ vin_in = Vin17 => ~vin_out
        /\ vin_in = Vin16 => vin_out

\* C7 amended: the validator accepts "53812345678901234" (17 characters) and
\* rejects "5381234567890123" (16 characters).
C7_Amended ==
    vin_pc = "done" =>
        /\ vin_in = Vin17 => vin_out
        /\ vin_in = Vin16 => ~vin_out

C7_Witness ==
    /\ vin_pc = "done"
    /\ vin_in = Vin16
    /\ ~vin_out

(***************************************************************************)
(* Properties of the fencepost counter (SpecFence).                        *)
(***************************************************************************)
\* C8: from a counter value in 0x01..0xff the next counter value is in
\* 0x01..0xfd or is 0xff; it is never 0x00 or 0xfe, 0xfd steps to 0xff and
\* 0xff wraps to 0x01.
C8_FencepostCounter ==
    (fp_steps > 0 /\ fp_prev[2] \in 1..255) =>
        /\ fp_cur[2] \in (1..253) \cup {255}
        /\ fp_prev[2] = 253 => fp_cur[2] = 255
        /\ fp_prev[2] = 255 => fp_cur[2] = 1
        /\ fp_cur[1] = fp_b0 /\ fp_cur[3] = fp_b2

\* The counter has stepped over 0xfe.
C8_Witness ==
    /\ fp_steps > 0
    /\ fp_prev[2] = 253
    /\ fp_cur[2] = 255

(***************************************************************************)
(* Properties of the ring-buffer decode (Spec).                            *)
(***************************************************************************)
\* C1: for every Rev0/Rev1 buffer the number of entries emitted by the decode
\* loop equals the number of 0xb2 delimiter bytes in the logical event log
\* computed by get_entries_and_counts. Stated when the run has ended, for the
\* runs in which get_entries_and_counts returned an event log.
C1_EmittedEqualsDelimiters ==
    (pc \in {"done", "raised"} /\ raised_in # "get_entries_and_counts")
        => Len(output) = Cardinality({i \in 1..Len(entries) : entries[i] = ENTRY_HEADER})

\* The count of C1 holds for every run whose loop is not left by an exception.
EmittedEqualsDelimitersWhenDone ==
    pc = "done" => Len(output) = Cardinality({i \in 1..Len(entries) : entries[i] = ENTRY_HEADER})

\* C2: Gen2.parse_entry never propagates an exception: whatever the event
\* log, the read position and the record content, it returns a length and an
\* entry that has an event and a time.
C2_ParseEntryNeverRaises ==
    last.called =>
        /\ ~last.raised
        /\ last.length \in 0..255
        /\ last.entry.time.is_date \/ last.entry.time.text # <<>>

\* C3: with the entries header present, the event log is bytes[start:EOF]
\* followed by bytes[data_begin:end] when start >= end, where data_begin is
\* the offset of the header plus 16, and exactly bytes[start:end] otherwise.
C3_RingEventLog ==
    (pc \in {"emit", "done"} /\ ring.found) =>
        LET eof == Len(raw_log)
            start == Min(ring.entries_start, eof)
            end == Min(ring.entries_end, eof)
            begin == Min(ring.entries_data_begin, eof)
            upper == Max(0, eof - start)
            lower == Max(0, end - begin)
        IN /\ ring.entries_data_begin >= 16
           /\ \A k \in 1..4 : raw_log[ring.entries_data_begin - 16 + k] = 162
           /\ IF ring.entries_start >= ring.entries_end
              THEN /\ Len(entries) = upper + lower
                   /\ \A i \in 1..upper : entries[i] = raw_log[start + i]
                   /\ \A i \in 1..lower : entries[upper + i] = raw_log[begin + i]
              ELSE /\ Len(entries) = end - start
                   /\ \A i \in 1..(end - start) : entries[i] = raw_log[start + i]

\* A wrapped log of which both parts hold bytes.
C3_Witness ==
    /\ pc = "emit"
    /\ ring.found
    /\ ring.entries_start >= ring.entries_end
    /\ ring.entries_start < Len(raw_log)
    /\ ring.entries_end > ring.entries_data_begin
    /\ Len(entries) > Len(raw_log) - ring.entries_start

\* The generic form of an event: '0x' and the two hex digits of the code, a
\* space, and the payload bytes in the same form separated by single spaces.
IsGenericEvent(event, code, payload) ==
    /\ Len(event) = 5 + (IF payload = <<>> THEN 0 ELSE 5 * Len(payload) - 1)
    /\ SubSeq(event, 1, 5) = <<48, 120, HexDigits[(code \div 16) + 1], HexDigits[(code % 16) + 1], 32>>
    /\ \A k \in 1..Len(payload) :
          /\ SubSeq(event, 5 * k + 1, 5 * k + 4)
                = <<48, 120, HexDigits[(payload[k] \div 16) + 1], HexDigits[(payload[k] % 16) + 1]>>
          /\ k < Len(payload) => event[5 * k + 5] = 32

EndsWithUnknown(conditions) ==
    /\ Len(conditions) >= 3
    /\ SubSeq(conditions, Len(conditions) - 2, Len(conditions)) = <<63, 63, 63>>

\* parse_entry has read a record whose message-type byte is the given plain
\* (unescaped) byte.
LastRecordCode(code) ==
    /\ last.called
    /\ last.address + 2 < Len(entries)
    /\ entries[last.address + 1] = ENTRY_HEADER
    /\ entries[last.address + 2] >= 3
    /\ entries[last.address + 3] = code

\* C9: for every message-type code that is not in the decoder registry,
\* parse_entry yields an entry whose conditions end with '???', whose event
\* is the generic form of the code and the payload without the prefix
\* 'Exception caught: ', and the decoder-exception counter is unchanged.
C9_UnknownCodeEntry ==
    \A code \in (0..255) \ (parsers \cup {ESCAPE_MARKER}) :
        LastRecordCode(code) =>
            /\ ~last.raised
            /\ EndsWithUnknown(last.entry.conditions)
            /\ IsGenericEvent(last.entry.event, code, last.message)
            /\ ~startswith(last.entry.event, ExceptionCaught)
            /\ last.unhandled = last.unhandled_in

\* The entry of C9 is what parse_entry returns for an unregistered code
\* whenever it returns.
UnknownCodeEntryWhenReturned ==
    (last.called /\ ~last.raised /\ last.message_type \notin parsers) =>
        /\ EndsWithUnknown(last.entry.conditions)
        /\ IsGenericEvent(last.entry.event, last.message_type, last.message)
        /\ ~startswith(last.entry.event, ExceptionCaught)
        /\ last.unhandled = last.unhandled_in

\* An unregistered code with a payload has been decoded.
UnknownCodeDecoded ==
    /\ last.called
    /\ ~last.raised
    /\ last.message_type = 153
    /\ last.message # <<>>
    /\ LastRecordCode(153)

\* The entry parse_entry returns when the decoder of a registered type raised.
DecoderExceptionCaught ==
    (last.called /\ last.decoder_raised) =>
        /\ ~last.raised
        /\ last.message_type \in parsers
        /\ startswith(last.entry.event, ExceptionCaught)
        /\ IsGenericEvent(SubSeq(last.entry.event, Len(ExceptionCaught) + 1, Len(last.entry.event)),
                          last.message_type, last.message)
        /\ EndsWithUnknown(last.entry.conditions)
        /\ last.unhandled = last.unhandled_in + 1

\* A decoder has raised and parse_entry has returned the generic entry.
DecoderExceptionSeen ==
    /\ last.called
    /\ last.decoder_raised
    /\ last.message_type = 48
    /\ unhandled = 1

\* C10: when the decoder of a registered message type raises, parse_entry
\* catches it: the event is 'Exception caught: ' and the generic form, the
\* conditions carry '???', the exception counter grows by exactly 1, and all
\* following records of the log are still decoded and emitted.
C10_DecoderExceptionContained ==
    /\ DecoderExceptionCaught
    /\ (unhandled > 0 /\ pc \in {"done", "raised"}) => Len(output) = entries_count

(***************************************************************************)
(* Properties of Gen2.parse_entry on one record (SpecEntry).               *)
(***************************************************************************)
\* parse_entry has read a run-status record (type 0x2c) whose payload is
\* shorter than the 27 bytes its decoder reads.
TruncatedRunStatus ==
    /\ LastRecordCode(44)
    /\ last.address + entries[last.address + 2] = Len(entries)
    /\ entries[last.address + 2] - 7 < 27

RECURSIVE DigitsValue(_)
\* The number a string of decimal digits denotes.
DigitsValue(text) ==
    IF text = <<>> THEN 0
    ELSE (10 * DigitsValue(SubSeq(text, 1, Len(text) - 1))) + (text[Len(text)] - 48)

AllDigits(text) == \A i \in 1..Len(text) : text[i] \in 48..57

\* text is the bare decimal string of n.
IsDecimalOf(text, n) ==
    /\ Len(text) >= 1
    /\ AllDigits(text)
    /\ Len(text) > 1 => text[1] # 48
    /\ DigitsValue(text) = n

\* Leap years before year y, and the days of the months before month m.
LeapYearsBefore(y) == ((y - 1) \div 4) - ((y - 1) \div 100) + ((y - 1) \div 400)

IsLeapYear(y) == (y % 4 = 0 /\ y % 100 # 0) \/ y % 400 = 0

DaysInMonths(y) == <<31, IF IsLeapYear(y) THEN 29 ELSE 28, 31, 30, 31, 30, 31, 31, 30, 31, 30, 31>>

RECURSIVE DaysBeforeMonth(_, _)
DaysBeforeMonth(y, m) == IF m = 1 THEN 0 ELSE DaysBeforeMonth(y, m - 1) + DaysInMonths(y)[m - 1]

\* text is 'mm/dd/yyyy HH:MM:SS', a date of the Gregorian calendar and a time
\* of day that lie the given number of seconds after 01/01/1970 00:00:00.
IsDateTimeOf(text, seconds) ==
    /\ Len(text) = 19
    /\ text[3] = 47 /\ text[6] = 47 /\ text[11] = 32 /\ text[14] = 58 /\ text[17] = 58
    /\ \A i \in (1..19) \ {3, 6, 11, 14, 17} : text[i] \in 48..57
    /\ LET month == DigitsValue(SubSeq(text, 1, 2))
           day == DigitsValue(SubSeq(text, 4, 5))
           year == DigitsValue(SubSeq(text, 7, 10))
           hour == DigitsValue(SubSeq(text, 12, 13))
           minute == DigitsValue(SubSeq(text, 15, 16))
           second == DigitsValue(SubSeq(text, 18, 19))
       IN /\ month \in 1..12
          /\ day \in 1..DaysInMonths(year)[month]
          /\ hour \in 0..23 /\ minute \in 0..59 /\ second \in 0..59
          /\ ((((365 * (year - 1970)) + LeapYearsBefore(year) - LeapYearsBefore(1970)
                + DaysBeforeMonth(year, month) + (day - 1)) * 86400)
              + (hour * 3600) + (minute * 60) + second) = seconds

\* The unsigned 32-bit little-endian value at bytes 1..4 of the unescaped
\* record parse_entry has read; a byte the record does not hold counts 0.
LastTimestampValue ==
    LET block == unescape_block(Slice(entries, last.address + 2, last.address + last.length)).data
        byte(i) == IF i < Len(block) THEN block[i + 1] ELSE 0
    IN byte(1) + (256 * byte(2)) + (65536 * byte(3)) + (16777216 * byte(4))

\* C14: the timestamp of a Gen2 record is the unsigned 32-bit little-endian
\* value at bytes 1..4 of the unescaped record; a value <= 0xfff gives its
\* bare decimal string as the time field, a value > 0xfff the formatted
\* date-time of (value + UTC offset) seconds since the epoch.
C14_TimeField ==
    (pc = "returned" /\ last.called) =>
        IF LastTimestampValue <= 4095
        THEN /\ ~last.entry.time.is_date
             /\ IsDecimalOf(last.entry.time.text, LastTimestampValue)
        ELSE /\ last.entry.time.is_date
             /\ IsDateTimeOf(last.entry.time.text, LastTimestampValue + timezone_offset)

\* A leap day rendered in the GMT-7 of the MBB: 02/29/2024 16:59:59.
C14_Witness ==
    /\ pc = "returned"
    /\ timezone_offset = -25200
    /\ LastTimestampValue = 1709251199
    /\ last.entry.time.text = <<48, 50, 47, 50, 57, 47, 50, 48, 50, 52, 32, 49, 54, 58, 53, 57, 58, 53, 57>>

(***************************************************************************)
(* Properties of Gen3.payload_to_entry (SpecGen3).                         *)
(***************************************************************************)
\* The record was decoded into an Entry.
Gen3Decoded == gen3_entry.decoded /\ ~gen3_entry.raised

\* The separators of the first cascade.
SentenceSep == <<46, 32>>                   \* '. '
ColonSep == <<58, 32>>                      \* ': '
EqualsSep == <<32, 61, 32>>                 \* ' = '
FromSep == <<32, 102, 114, 111, 109, 32>>   \* ' from '
ToSep == <<32, 116, 111, 32>>               \* ' to '
CurrentPrefix == <<73, 95, 40>>             \* 'I_('

\* s is t cut after i characters / from character i + 1 on.
Before(t, i) == SubSeq(t, 1, i)
After(t, i) == SubSeq(t, i + 1, Len(t))

\* sep occurs in t right after the first i characters.
OccursAt(t, sep, i) == i + Len(sep) <= Len(t) /\ SubSeq(t, i + 1, i + Len(sep)) = sep
Occurs(t, sep) == \E i \in 0..Len(t) : OccursAt(t, sep, i)
FirstAt(t, sep) == CHOOSE i \in 0..Len(t) : OccursAt(t, sep, i) /\ \A j \in 0..(i - 1) : ~OccursAt(t, sep, j)
LastAt(t, sep) == CHOOSE i \in 0..Len(t) : OccursAt(t, sep, i) /\ \A j \in (i + 1)..Len(t) : ~OccursAt(t, sep, j)

\* t = name ++ ' (' ++ detail ++ ')' ++ rest with a non-empty name and detail
\* free of parentheses; o and c are the places of the two parentheses.
NameDetailAt(t, o, c) ==
    /\ o >= 3 /\ c >= o + 2 /\ c <= Len(t)
    /\ t[o] = 40 /\ t[o - 1] = 32 /\ t[c] = 41
    /\ \A i \in (1..(c - 1)) \ {o} : t[i] \notin {40, 41}
HasNameDetail(t) == \E o \in 1..Len(t), c \in 1..Len(t) : NameDetailAt(t, o, c)

\* The outcome the ordered cascade gives for the text t.
CascadeOutcome(t, p) ==
    IF Occurs(t, SentenceSep)
    THEN /\ p.event_message = Before(t, LastAt(t, SentenceSep))
         /\ p.event_conditions = After(t, LastAt(t, SentenceSep) + 2)
         /\ p.conditions = <<>>
    ELSE IF startswith(t, CurrentPrefix)
    THEN /\ p.event_conditions = <<>>
         /\ IF Occurs(t, <<41>>)
            THEN /\ p.event_message = <<67, 117, 114, 114, 101, 110, 116>>
                 /\ \A i \in 1..Len(p.conditions) : startswith(p.conditions[i][1], <<73, 95>>)
            ELSE p.event_message = t /\ p.conditions = <<>>
    ELSE IF Occurs(t, ColonSep)
    THEN /\ p.event_message = Before(t, FirstAt(t, ColonSep))
         /\ p.event_conditions = After(t, FirstAt(t, ColonSep) + 2)
         /\ p.conditions = <<>>
    ELSE IF Occurs(t, EqualsSep)
    THEN /\ p.event_message = Before(t, FirstAt(t, EqualsSep))
         /\ p.event_conditions = After(t, FirstAt(t, EqualsSep) + 3)
         /\ p.conditions = <<>>
    ELSE IF Occurs(t, FromSep) /\ Occurs(t, ToSep)
    THEN /\ p.event_message = Before(t, FirstAt(t, FromSep))
         /\ \E rest \in {After(t, FirstAt(t, FromSep) + 6)} :
               IF Occurs(rest, ToSep)
               THEN /\ p.event_conditions = <<>>
                    /\ p.conditions = << <<(<<102, 114, 111, 109>>), Before(rest, LastAt(rest, ToSep))>>,
                                         <<(<<116, 111>>), After(rest, LastAt(rest, ToSep) + 4)>> >>
               ELSE p.event_conditions = rest /\ p.conditions = <<>>
    ELSE IF HasNameDetail(t)
    THEN \E o \in 1..Len(t), c \in 1..Len(t) :
            /\ NameDetailAt(t, o, c)
            /\ p.event_message = Before(t, o - 2)
            /\ p.event_conditions = SubSeq(t, o + 1, c - 1)
            /\ p.conditions = <<>>
    ELSE p.event_message = t /\ p.event_conditions = <<>> /\ p.conditions = <<>>

\* C13: the first cascade of a Rev2 message is ordered, the first rule that
\* applies wins and the later ones are not tried: '. ' (split at the last one),
\* then the prefix 'I_(', then ': ', then ' = ', then ' from ' with ' to ',
\* then the form name (detail), else the whole text is the event; the event of
\* the Entry is the event of that rule.
C13_OrderedCascade ==
    Gen3Decoded =>
        /\ CascadeOutcome(payload_string_of(gen3_payload), gen3_entry.primary)
        /\ gen3_entry.event = gen3_entry.primary.event_message

\* A message with both '. ' and ': ' was split at its last '. ' only.
C13_Witness ==
    /\ Gen3Decoded
    /\ \E t \in {payload_string_of(gen3_payload)} :
          /\ Occurs(t, SentenceSep) /\ Occurs(t, ColonSep)
          /\ FirstAt(t, ColonSep) < LastAt(t, SentenceSep)
          /\ gen3_entry.event = Before(t, LastAt(t, SentenceSep))
          /\ Occurs(gen3_entry.event, ColonSep)

\* The pair a part of the comma rule stands for: 'k: v' gives (k, v), two
\* words 'k v' give (k, v), any other part gives (part, '').
PartPair(part) ==
    IF Occurs(part, ColonSep)
    THEN <<Before(part, FirstAt(part, ColonSep)), After(part, FirstAt(part, ColonSep) + 2)>>
    ELSE IF Cardinality({i \in 1..Len(part) : part[i] = 32}) = 1
    THEN <<Before(part, FirstAt(part, <<32>>)), After(part, FirstAt(part, <<32>>) + 1)>>
    ELSE <<part, <<>> >>

\* The pairs of the parts of the text between its ', ', in order.
PartPairs(event_conditions) ==
    [i \in 1..Len(split(event_conditions, <<44, 32>>)) |->
        PartPair(strip(split(event_conditions, <<44, 32>>)[i]))]

\* pairs is the ordered mapping the pairs pp build when they are entered in
\* order: one pair for each key, placed where the key first occurs and
\* holding the value the key is given last.
IsOrderedMappingOf(pairs, pp) ==
    /\ \A i, j \in 1..Len(pairs) : pairs[i][1] = pairs[j][1] => i = j
    /\ \A i \in 1..Len(pp) : \E j \in 1..Len(pairs) : pairs[j][1] = pp[i][1]
    /\ \A j \in 1..Len(pairs) :
          \E i \in 1..Len(pp) :
             /\ pp[i] = pairs[j]
             /\ \A n \in (i + 1)..Len(pp) : pp[n][1] # pp[i][1]
    /\ \A i, j \in 1..Len(pairs) :
          i < j => \E m \in 1..Len(pp) :
                     /\ pp[m][1] = pairs[i][1]
                     /\ \A n \in 1..m : pp[n][1] # pairs[j][1]

\* The comma rule is the rule of the second cascade that applies to the text.
CommaRuleApplies(p) ==
    /\ p.conditions = <<>>
    /\ Occurs(p.event_conditions, <<44, 32>>)
    /\ ~startswith(p.event_conditions, <<86, 95, 40>>)
    /\ ~(Occurs(p.event_conditions, <<79, 108, 100, 58, 32>>)
         /\ Occurs(p.event_conditions, <<78, 101, 119, 58, 32>>))

\* The message has the form 'E: ...': no '. ' in it, not starting with 'I_('.
HasEventColonForm(t) ==
    ~Occurs(t, SentenceSep) /\ ~startswith(t, CurrentPrefix) /\ Occurs(t, ColonSep)

AllKeysDistinct(pp) == \A i, j \in 1..Len(pp) : pp[i][1] = pp[j][1] => i = j

TagAt(data, offset) == [i \in 1..3 |-> IF offset + i <= Len(data) THEN data[offset + i] ELSE 0]

IsPrintableTag(tag) == \A i \in 1..3 : tag[i] \in string_printable

\* The tag at 0x000, or the tag at 0x00d when the first is not printable.
TagObtained(data) == IF IsPrintableTag(TagAt(data, 0)) THEN TagAt(data, 0) ELSE TagAt(data, 13)

\* The literal occurs in the path, in upper or lower case letters.
OccursIgnoringCase(path, literal) ==
    \E i \in 0..(Len(path) - Len(literal)) :
        \A j \in 1..Len(literal) : path[i + j] \in {literal[j], literal[j] + 32}

\* The known kinds the file name spells.
KindsOfName(path) == {kind \in {log_type_mbb, log_type_bms} : OccursIgnoringCase(path, kind)}

LogTypeSet == hdr_pc \in {"typed", "classified", "raised"}

\* C15: the kind of a log is the tag at 0x000, or the tag at 0x00d when the
\* first is not printable; whenever that tag is neither 'MBB' nor 'BMS', a
\* printable tag of another text included, the kind is a literal the file
\* name holds in any case, and Unknown only if the name holds neither.
C15_LogKind ==
    LogTypeSet =>
        IF TagObtained(hdr_data) \in {log_type_mbb, log_type_bms}
        THEN hdr_log_type = TagObtained(hdr_data)
        ELSE IF KindsOfName(hdr_path) # {}
        THEN hdr_log_type \in KindsOfName(hdr_path)
        ELSE hdr_log_type = log_type_unknown

\* What get_log_type does: the file name decides only when neither tag is
\* printable.
LogKindNameOnlyWithoutPrintableTag ==
    LogTypeSet =>
        IF TagObtained(hdr_data) \in {log_type_mbb, log_type_bms}
        THEN hdr_log_type = TagObtained(hdr_data)
        ELSE IF IsPrintableTag(TagObtained(hdr_data))
        THEN hdr_log_type = log_type_unknown
        ELSE IF KindsOfName(hdr_path) # {}
        THEN hdr_log_type \in KindsOfName(hdr_path)
        ELSE hdr_log_type = log_type_unknown

\* A file without a printable tag got its kind from its name.
LogKindFromName ==
    /\ LogTypeSet
    /\ ~IsPrintableTag(TagObtained(hdr_data))
    /\ hdr_log_type = log_type_mbb

\* The VIN candidate at an offset is a valid VIN: 17 printable characters
\* of the file that start with '538'.
ValidVinAt(data, offset) ==
    /\ Len(data) >= offset + vin_length
    /\ \A i \in 1..vin_length : data[offset + i] \in string_printable
    /\ SubSeq(data, offset + 1, offset + 3) = vin_guaranteed_prefix

\* The generation the candidates give, tested at 0x240, 0x252 and 0x029 in
\* that order.
GenerationOfCandidates(data) ==
    IF ValidVinAt(data, 576) THEN REV0
    ELSE IF ValidVinAt(data, 594) THEN REV1
    ELSE IF ValidVinAt(data, 41) THEN REV2
    ELSE REV0

HeaderCalled == hdr_pc \in {"classified", "raised"}

IsPrimaryOrUnknown == hdr_log_type \in {log_type_mbb, log_type_unknown}

\* C16: for a primary-controller or Unknown log the generation is that of
\* the first valid VIN candidate among those at 0x240 (Rev0), 0x252 (Rev1) and
\* 0x029 (Rev2), an earlier one winning over a later one; when none is valid
\* the generation is Rev0 and decoding proceeds.
C16_GenerationFromVin ==
    (HeaderCalled /\ IsPrimaryOrUnknown) =>
        /\ hdr_result.returned
        /\ hdr_result.log_version = GenerationOfCandidates(hdr_data)

\* Whenever get_version_and_header returns, the generation is the claimed
\* one.
GenerationAsClaimedWhenReturned ==
    (hdr_pc = "classified" /\ IsPrimaryOrUnknown) =>
        hdr_result.log_version = GenerationOfCandidates(hdr_data)

\* Rev1 was decided for a file with valid candidates at 0x252 and 0x029.
GenerationDecidedByOrder ==
    /\ hdr_pc = "classified"
    /\ IsPrimaryOrUnknown
    /\ ~ValidVinAt(hdr_data, 576) /\ ValidVinAt(hdr_data, 594) /\ ValidVinAt(hdr_data, 41)
    /\ hdr_result.log_version = REV1

\* C17: header classification never aborts: for every non-empty buffer of
\* any length and content and any file name, get_log_type and
\* get_version_and_header return a kind, a generation and a header map
\* without raising.
C17_HeaderNeverAborts ==
    (Len(hdr_data) > 0 /\ HeaderCalled) => (hdr_result.returned /\ hdr_pc # "raised")

\* get_version_and_header raises exactly when a field it reads ends past the
\* 32 bytes of padding; a file of 0x331 + 8 bytes or more is always
\* classified.
HeaderReturnsForLongFiles ==
    (Len(hdr_data) >= 825 /\ HeaderCalled) => hdr_result.returned

HeaderRaisedOnShortFile ==
    /\ hdr_pc = "raised"
    /\ Len(hdr_data) = 1

(***************************************************************************)
(* Properties of BinaryTools.unpack (SpecUnpack).                          *)
(***************************************************************************)
\* C18: BinaryTools.unpack of a supported type at a non-negative address
\* does not fail when the read runs past the end of the buffer, and every
\* byte read beyond the real length of the buffer is zero.
C18_UnpackPastEnd ==
    up_result.called =>
        /\ ~up_result.raised
        /\ Len(up_result.bytes) = up_size
        /\ \A i \in 1..up_size :
              up_result.bytes[i] = IF up_address + i <= Len(up_buff) THEN up_buff[up_address + i] ELSE 0

\* A read that ends within 32 bytes of the end of the buffer does not fail
\* and reads zeros past the end.
UnpackWithinPadding ==
    (up_result.called /\ up_address + up_size <= Len(up_buff) + UNPACK_PADDING) =>
        /\ ~up_result.raised
        /\ \A i \in 1..up_size :
              up_result.bytes[i] = IF up_address + i <= Len(up_buff) THEN up_buff[up_address + i] ELSE 0

\* A read across the end of the buffer returned the bytes and zeros.
UnpackReadAcrossEnd ==
    /\ up_result.called /\ ~up_result.raised
    /\ up_address < Len(up_buff) /\ up_address + up_size > Len(up_buff)

(***************************************************************************)
(* The claimed entry count (Spec).                                         *)
(***************************************************************************)
\* Other contents of the claimed-count field: zero, and bytes that are
\* delimiters and bytes of the sentinel.
OtherCountFields == {<<0, 0, 0, 0>>, <<178, 162, 162, 0>>}

\* The places (1-based) of the claimed-count field, at sentinel + 0x0c.
CountFieldPlaces == (ring.entries_data_begin - 3)..ring.entries_data_begin

\* The places (1-based) of the file the logical sequence is made of.
LogicalPlaces ==
    IF ring.entries_start >= ring.entries_end
    THEN ((ring.entries_start + 1)..Len(raw_log))
         \cup ((ring.entries_data_begin + 1)..Min(ring.entries_end, Len(raw_log)))
    ELSE (ring.entries_start + 1)..Min(ring.entries_end, Len(raw_log))

\* The file holds the whole claimed-count field, outside the logical
\* sequence.
CountFieldOutside ==
    /\ ring.found
    /\ ring.entries_data_begin <= Len(raw_log)
    /\ CountFieldPlaces \cap LogicalPlaces = {}

\* The file with another claimed-count field.
WithCountField(data, field) ==
    [i \in 1..Len(data) |->
        IF i \in CountFieldPlaces THEN field[i - (ring.entries_data_begin - 4)] ELSE data[i]]

\* The result of get_entries_and_counts on a file with an entries header.
Segmented(data, h) ==
    [event_log |-> ring_event_log(data, h.entries_start, h.entries_end, h.entries_data_begin),
     count |-> count_entries(ring_event_log(data, h.entries_start, h.entries_end,
                                            h.entries_data_begin),
                             h.claimed_entries_count)]

RECURSIVE DecodedEntries(_, _, _, _, _, _)
\* The entries the loop of emit_zero_compatible_decoding writes from entry
\* num on, ended by a mark when parse_entry raises.
DecodedStep(r, event_log, count, tz, pos, num) ==
    IF r.raised THEN << [raised |-> TRUE] >>
    ELSE <<OutputEntry(r.entry, num + 1)>>
         \o DecodedEntries(event_log, count, tz, pos + r.length, num + 1, r.unhandled)

DecodedEntries(event_log, count, tz, pos, num, unh) ==
    IF num >= count THEN <<>>
    ELSE DecodedStep(parse_entry(event_log, pos, unh, tz), event_log, count, tz, pos, num)

\* A file that differs in the claimed-count field only gives the same
\* event log, the same count and the same entries as this one gave.
SameAsWithField(s) ==
    /\ s.event_log = entries
    /\ s.count = entries_count
    /\ pc = "done" =>
          DecodedEntries(s.event_log, s.count, timezone_offset, 0, 0, 0) = output
    /\ (pc = "raised" /\ raised_in = "parse_entry") =>
          DecodedEntries(s.event_log, s.count, timezone_offset, 0, 0, 0)
             = output \o << [raised |-> TRUE] >>

\* C19: the claimed entry count of the entries header never bounds the
\* iteration: when the decoding of a Rev0 or Rev1 file has ended, a file that
\* differs from it only in the claimed-count field at sentinel + 0x0c, the
\* field lying outside the logical sequence, has the same entries header, the
\* same logical event log, the same record count and the same decoded
\* entries.
C19_ClaimedCountIgnored ==
    (pc \in {"done", "raised"} /\ CountFieldOutside) =>
        \A field \in OtherCountFields :
            \E other \in {WithCountField(raw_log, field)} :
                /\ index_of_sequence(other, EntriesHeader) = ring.entries_data_begin - 16
                /\ \E h \in {entries_header(other)} :
                      /\ h.entries_start = ring.entries_start
                      /\ h.entries_end = ring.entries_end
                      /\ SameAsWithField(Segmented(other, h))

\* A file whose claimed count is not its number of records was decoded to
\* the end: one entry for each record.
C19_Witness ==
    /\ pc = "done"
    /\ CountFieldOutside
    /\ entries_count > 0
    /\ ring.claimed_entries_count # entries_count
    /\ Len(output) = entries_count
(***************************************************************************)
(* Properties of sessions that run side by side (SpecSessions).            *)
(***************************************************************************)
\* The index of the first Rev2 record payload_to_entry raises on, or one
\* past the last.
Gen3RaisesAt(event_log) ==
    FirstOr({k \in 1..Len(event_log) : payload_to_entry(event_log[k]).raised},
            Len(event_log) + 1)

\* The lines of a Rev2 log, ended by a mark when payload_to_entry raises.
Gen3DecodedUpTo(event_log, last_line) ==
    [k \in 1..(last_line - 1) |-> OutputGen3Entry(payload_to_entry(event_log[k]), k - 1)]
    \o (IF last_line <= Len(event_log) THEN << [raised |-> TRUE] >> ELSE <<>>)

Gen3DecodedEntries(event_log) == Gen3DecodedUpTo(event_log, Gen3RaisesAt(event_log))

\* What a session gives when it runs alone, computed from its own file.
AloneLogType(file) == get_log_type(file.data, file.path)

AloneHeader(file) == get_version_and_header(file.data, AloneLogType(file))

AloneEntries(file, h) == get_entries_and_counts(file.data, h.log_version)

AloneDecoded(h, e) ==
    IF h.log_version < REV2
    THEN DecodedEntries(e.event_log, e.entries_count, MBB_TIMESTAMP_GMT_OFFSET, 0, 0, 0)
    ELSE Gen3DecodedEntries(e.event_log)

HeaderSteps == {"classified", "emit", "done", "raised in get_entries_and_counts", "hangs",
                "raised in emit"}

EntriesSteps == {"emit", "done", "raised in emit"}

\* The decoded entries of the session are those its records give alone, as
\* far as the decode loop has come.
DecodedAsAlone(s, d) ==
    /\ ses_emit[s].output = SubSeq(d, 1, Len(ses_emit[s].output))
    /\ ses_pc[s] = "done" => ses_emit[s].output = d
    /\ ses_pc[s] = "raised in emit" => d = ses_emit[s].output \o << [raised |-> TRUE] >>

\* The record list and the count of the session are those its file gives
\* alone.
EntriesAsAlone(s, h, e) ==
    /\ ses_pc[s] = "raised in get_entries_and_counts" => e.raised
    /\ ses_pc[s] = "hangs" => e.hangs
    /\ ses_pc[s] \in EntriesSteps =>
          /\ ~e.raised /\ ~e.hangs
          /\ ses_data[s].entries = e.event_log
          /\ ses_data[s].entries_count = e.entries_count
          /\ \E d \in {AloneDecoded(h, e)} : DecodedAsAlone(s, d)

\* The generation and the header map of the session are those its file
\* gives alone.
HeaderAsAlone(s, file, h) ==
    /\ ses_pc[s] = "raised in get_version_and_header" => h.raised
    /\ ses_pc[s] \in HeaderSteps =>
          /\ ~h.raised
          /\ ses_data[s].log_version = h.log_version
          /\ ses_data[s].header_info = h.header_info
          /\ \E e \in {AloneEntries(file, h)} : EntriesAsAlone(s, h, e)

\* The session holds what its own file gives alone, as far as it has come.
SessionAsAlone(s, file) ==
    /\ ses_pc[s] # "new" => ses_log[s].data = file.data
    /\ ses_pc[s] \notin {"new", "loaded"} =>
          /\ ses_log[s].log_type = AloneLogType(file)
          /\ \E h \in {AloneHeader(file)} : HeaderAsAlone(s, file, h)

SessionsAsAlone == \A s \in Sessions : SessionAsAlone(s, ses_in[s])

\* A step leaves the buffer, the classification, the records and the
\* decode cursor of every session but one as they were.
StepOfOneSession ==
    \E s \in Sessions :
        \A o \in Sessions \ {s} :
            /\ ses_log'[o] = ses_log[o]
            /\ ses_data'[o] = ses_data[o]
            /\ ses_emit'[o] = ses_emit[o]
            /\ ses_pc'[o] = ses_pc[o]

\* C20: decode sessions are isolated: with the steps of two sessions, each
\* with its own LogFile and LogData, interleaved in any order, the
\* generation, the header map, the record list and the decoded entries of
\* each session are those it gives when run alone on its own file, and
\* every step changes the buffer, the classification result and the cursor
\* of its own session only.
C20_SessionsIsolated == []SessionsAsAlone /\ [][StepOfOneSession]_vars

\* Two sessions on different files of different generations have both
\* decoded all their records.
C20_Witness ==
    /\ ses_pc = [s \in Sessions |-> "done"]
    /\ ses_in[1] # ses_in[2]
    /\ ses_data[1].log_version # ses_data[2].log_version
    /\ ses_data[1].entries # ses_data[2].entries
    /\ ses_emit[1].output # <<>>
    /\ ses_emit[2].output # <<>>
    /\ ses_emit[1].output # ses_emit[2].output

(***************************************************************************)
(* Properties of the resynchronisation of the decode loop (Spec).          *)
(***************************************************************************)
\* An iteration of the decode loop is about to run.
LoopTurn == pc = "emit" /\ entry_num < entries_count

\* The delimiter the iteration settles on, and the length byte after it.
TurnDelimiter == resync_address(entries, read_pos)

TurnLength == IF TurnDelimiter + 1 < Len(entries) THEN entries[TurnDelimiter + 2] ELSE 0

\* The logical sequence ends before a delimiter is met.
TurnExhausted == TurnDelimiter >= Len(entries)

\* C21: if the logical sequence is exhausted while parse_entry
\* resynchronises byte by byte to the next 0xB2 delimiter, segmentation stops
\* early: the iteration produces no entry, and no later iteration does.
C21_ExhaustedResyncStops ==
    [][(LoopTurn /\ TurnExhausted) => output' = output]_vars

\* What the loop does instead: the iteration whose resynchronisation ran off
\* the end writes the entry of an empty block of type 0 and leaves the read
\* position where it was, so every later iteration does the same.
ExhaustedResyncEmits ==
    [][(LoopTurn /\ TurnExhausted) =>
          /\ Len(output') = Len(output) + 1
          /\ last'.length = 0
          /\ last'.message_type = 0
          /\ read_pos' = read_pos
          /\ pc' = "emit"]_vars

\* Two entries were written by iterations that ran off the end of the log.
ExhaustedResyncTwice ==
    /\ pc = "done"
    /\ Len(entries) > 0
    /\ Len(output) >= 2
    /\ read_pos >= Len(entries) - 1
    /\ output[Len(output)].event = output[Len(output) - 1].event
    /\ last.address >= Len(entries)

\* C22: each ring-buffer record is consumed exactly once: a record found at
\* the delimiter position p, at the read position or after the
\* resynchronisation skipped bytes, with the length byte L is decoded from
\* p, and the next read position is p + L; so the read position strictly
\* advances and no delimiter is decoded twice.
C22_RecordConsumedOnce ==
    [][(LoopTurn /\ ~TurnExhausted /\ pc' = "emit") =>
          /\ last'.address = TurnDelimiter
          /\ last'.length = TurnLength
          /\ read_pos' = TurnDelimiter + TurnLength
          /\ read_pos' > read_pos
          /\ last.called => TurnDelimiter > last.address]_vars

\* What the loop does: the read position advances by the length byte from
\* where the iteration began, not from the delimiter it settled on.
ReadPosAdvancesFromStart ==
    [][(LoopTurn /\ pc' = "emit") => read_pos' = read_pos + TurnLength]_vars

\* A record was found after one skipped byte, and the next read position
\* lies before the end of that record.
ReadPosInsideRecord ==
    /\ last.called
    /\ ~last.raised
    /\ last.address = last.address_in + 1
    /\ last.address < Len(entries)
    /\ last.length > 0
    /\ read_pos = last.address_in + last.length
    /\ read_pos < last.address + last.length

(***************************************************************************)
(* Properties of the segmentation without an entries header (Spec).        *)
(***************************************************************************)
SentinelAbsent == index_of_sequence(raw_log, EntriesHeader) = None

Segmented23 == pc # "loaded"

SegmentationRaised == pc = "raised" /\ raised_in = "get_entries_and_counts"

FirstDelimiter == index_of_sequence(raw_log, <<ENTRY_HEADER>>)

\* The fallback bounds: the end is the length of the buffer, the start the
\* offset of the first delimiter byte, the claimed count 0.
FallbackBounds ==
    /\ ~ring.found
    /\ ring.entries_end = Len(raw_log)
    /\ ring.entries_start = FirstDelimiter
    /\ ring.claimed_entries_count = 0

\* C23: when the sentinel 0xA2A2A2A2 is absent from a Rev0/Rev1 buffer, ring
\* segmentation falls back to end = buffer length, start = offset of the
\* first 0xB2 byte and claimed count = 0, and completes without raising for
\* every such buffer; a buffer without a 0xB2 byte yields zero records.
C23_FallbackWithoutSentinel ==
    (Segmented23 /\ SentinelAbsent) =>
        /\ FallbackBounds
        /\ ~SegmentationRaised
        /\ FirstDelimiter = None => (entries = <<>> /\ entries_count = 0 /\ pc \in {"emit", "done"})

\* With a delimiter byte in the buffer the fallback is as stated: the logical
\* sequence runs from the first delimiter to the end of the buffer, and
\* nothing is raised by the segmentation.
FallbackWithDelimiter ==
    (Segmented23 /\ SentinelAbsent /\ FirstDelimiter # None) =>
        /\ FallbackBounds
        /\ ~SegmentationRaised
        /\ entries = SliceFrom(raw_log, FirstDelimiter)
        /\ entries_count = CountByte(raw_log, ENTRY_HEADER)

\* Without a delimiter byte the comparison of the start, None, with the end
\* raises TypeError.
FallbackWithoutDelimiterRaises ==
    (Segmented23 /\ SentinelAbsent /\ FirstDelimiter = None) => SegmentationRaised

FallbackRaised == SentinelAbsent /\ FirstDelimiter = None /\ SegmentationRaised

FallbackSegmented == SentinelAbsent /\ FirstDelimiter # None /\ pc = "done" /\ entries_count > 0

(***************************************************************************)
(* Properties of the fencepost segmenter (SpecSegment).                    *)
(***************************************************************************)
\* The positions p with buffer[p] = B0 and buffer[p + 2] = B2.
FencepostPlaces ==
    {q \in 0..(Len(seg_raw) - 3) : seg_raw[q + 1] = seg_raw[11] /\ seg_raw[q + 3] = seg_raw[13]}

\* The first fencepost has been located and the loop has not begun.
FirstLocated == seg_pc = "loop" /\ seg_marks = <<>>

\* C24: with B0 = buffer[0x0A] and B2 = buffer[0x0C], the first fencepost
\* located is the smallest position p with buffer[p] = B0 and
\* buffer[p + 2] = B2, and V0 = buffer[p + 1], for every value of the middle
\* byte and of B0 and B2.
C24_FirstFencepost ==
    (seg_pc # "new" /\ Len(seg_raw) >= 13) =>
        /\ seg_pc # "raised"
        /\ FirstLocated =>
              /\ seg_start = FirstOr(FencepostPlaces, None)
              /\ seg_value = seg_raw[seg_start + 2]

\* What is located: the smallest such position whose middle byte is not the
\* newline, the byte the '.' of the regular expression does not match; and
\* ValueError is raised when there is none.
FirstFencepostNotNewline ==
    (seg_pc # "new" /\ Len(seg_raw) >= 13) =>
        /\ seg_pc = "raised" <=> \A q \in FencepostPlaces : seg_raw[q + 2] = 10
        /\ FirstLocated =>
              /\ seg_start = FirstOr({q \in FencepostPlaces : seg_raw[q + 2] # 10}, None)
              /\ seg_value = seg_raw[seg_start + 2]

\* The fencepost at 0x0a has a newline in the middle and a later one is
\* located.
FirstFencepostAfterNewline ==
    /\ FirstLocated
    /\ seg_raw[12] = 10
    /\ seg_start > 10

\* The only fencepost has a newline in the middle and ValueError is raised.
NoFencepostButNewline ==
    /\ seg_pc = "raised"
    /\ Len(seg_raw) = 13
    /\ FencepostPlaces = {10}

\* A turn of the outer loop after the first one moves event_start forward.
StartAdvances ==
    [][(seg_pc = "loop" /\ seg_marks # <<>>) => seg_start' > seg_start]_vars

\* C25: fencepost segmentation terminates on every Rev2 buffer: for every
\* first counter value V0, 0x00 and 0xFE included, the search through the
\* successive counter values ends within one cycle of values, and the record
\* start position strictly increases until no next fencepost is found or
\* the end of the buffer is reached.
C25_SegmentationTerminates == [](seg_pc # "hangs") /\ StartAdvances

\* The search never ends only from the values 0x00 and 0xfe, which the
\* counter does not come back to; from every other value it ends within a
\* cycle.
HangsOnlyOffCycle == seg_pc = "hangs" => seg_value \in {0, 254}

\* The search for the end of the first record never ends: V0 is 0x00.
HangsFromZero == seg_pc = "hangs" /\ seg_value = 0 /\ seg_marks = <<>>

\* The search never ends from V0 = 0xfe.
HangsFromFE == seg_pc = "hangs" /\ seg_value = 254

\* The record of a mark is followed by another record, or will be.
FollowedByRecord(i) == i < Len(seg_marks) \/ seg_pc = "loop"

MarkLength(i) == seg_marks[i].event_end - seg_marks[i].event_start

\* C26: when the search for the end of the record with counter V returns to
\* V without a fencepost within 256 bytes of the record start, segmentation
\* stops and no further record is produced; hence every record that is
\* followed by another record has end - start <= 256.
C26_StopsOnReturn ==
    \A i \in 1..Len(seg_marks) :
        FollowedByRecord(i) => (seg_marks[i].event_end # None /\ MarkLength(i) <= 256)

\* What holds: a record followed by another has its end within 256 bytes of
\* its start, or ends at the next occurrence of its own fencepost.
EndNearOrOwnFencepost ==
    \A i \in 1..Len(seg_marks) :
        FollowedByRecord(i) =>
            /\ seg_marks[i].event_end # None
            /\ \/ MarkLength(i) <= 256
               \/ SubSeq(seg_raw, seg_marks[i].event_end + 1, seg_marks[i].event_end + 3)
                     = SubSeq(seg_raw, seg_marks[i].event_start + 1, seg_marks[i].event_start + 3)

\* The search came back to the counter value of the record, whose fencepost
\* occurs again more than 256 bytes on, and a second record was produced.
RecordAfterReturn ==
    /\ seg_pc = "done"
    /\ Len(seg_marks) = 2
    /\ MarkLength(1) > 256
    /\ seg_raw[seg_marks[1].event_start + 2] = seg_raw[seg_marks[2].event_start + 2]

\* The end of the range of a record: 4 bytes before the next fencepost, or
\* the end of the buffer.
RangeEnd(i) ==
    IF seg_marks[i].event_end = None THEN Len(seg_raw) ELSE seg_marks[i].event_end - 4

\* The bytes [s - 4, e - 4) of the buffer, from the first byte on when
\* s < 4.
RangeBytes(i) == SubSeq(seg_raw, Max(seg_marks[i].event_start - 4, 0) + 1, RangeEnd(i))

\* The records are in increasing order, each beginning at the fencepost the
\* one before ended at.
RecordsInOrder ==
    \A i \in 2..Len(seg_marks) :
        /\ seg_marks[i].event_start = seg_marks[i - 1].event_end
        /\ seg_marks[i].event_start > seg_marks[i - 1].event_start

\* C27: every record produced by the fencepost segmenter is the contiguous
\* byte range [s - 4, e - 4) of the buffer, s being the position of its
\* fencepost and e that of the next record's fencepost, or the end of the
\* buffer for the last record; this holds for every s >= 0, s < 4 included,
\* and successive records are in increasing order, each starting where the
\* previous one ended.
C27_RecordRanges ==
    /\ Len(seg_log) = Len(seg_marks)
    /\ \A i \in 1..Len(seg_marks) :
          /\ seg_marks[i].event_start \in FencepostPlaces
          /\ seg_log[i] = RangeBytes(i)
    /\ RecordsInOrder

\* What holds: the ranges are as stated for every fencepost at 4 or beyond,
\* and the records are in order.
RecordRangesFromOffset4 ==
    /\ Len(seg_log) = Len(seg_marks)
    /\ \A i \in 1..Len(seg_marks) :
          /\ seg_marks[i].event_start \in FencepostPlaces
          /\ seg_marks[i].event_start >= 4 => seg_log[i] = RangeBytes(i)
    /\ RecordsInOrder

\* The first record has its fencepost at offset 1 and its end 4 bytes before
\* a later fencepost, and it is empty: the negative start of the slice
\* counts from the end of the buffer.
RecordBeforeOffset4Empty ==
    /\ seg_marks # <<>>
    /\ seg_marks[1].event_start = 1
    /\ seg_marks[1].event_end # None
    /\ RangeEnd(1) > 0
    /\ seg_log[1] = <<>>

\* C28: for a Rev2 log the entry count returned by the fencepost segmenter
\* equals the number of records of its list, and every record, whatever its
\* length (records shorter than 7 bytes included) and its timestamp bytes,
\* is turned by Gen3.payload_to_entry into one entry without raising.
C28_EveryRecordDecoded ==
    seg_pc = "done" =>
        /\ seg_count = Len(seg_log)
        /\ \A i \in 1..Len(seg_log) : ~payload_to_entry(seg_log[i]).raised

\* What holds: the count is the number of records, and every record of 7
\* bytes or more is turned into an entry.
LongRecordsDecoded ==
    /\ seg_count = Len(seg_log)
    /\ \A i \in 1..Len(seg_log) :
          Len(seg_log[i]) >= 7 => ~payload_to_entry(seg_log[i]).raised

\* A record between two fenceposts at offset 4 or beyond is shorter than 7
\* bytes, and payload_to_entry raises on it.
ShortRecordRaises ==
    /\ seg_pc = "done"
    /\ \E i \in 1..Len(seg_log) :
          /\ seg_marks[i].event_start >= 4
          /\ seg_marks[i].event_end # None
          /\ Len(seg_log[i]) < 7
          /\ payload_to_entry(seg_log[i]).raised

(***************************************************************************)
(* Properties of the diagnostic counters of the decode loop (Spec).        *)
(***************************************************************************)
NoTally == [raised |-> 0, unregistered |-> 0, exhausted |-> 0,
            unregistered_codes |-> {}, raised_codes |-> {}]

\* The tally with the record of a call of parse_entry added: a record whose
\* decoder raised, a record of an unregistered code, or no record at all
\* when the log was exhausted.
TallyAdd(t, r, event_log) ==
    IF r.address >= Len(event_log)
    THEN [t EXCEPT !.exhausted = @ + 1]
    ELSE IF r.decoder_raised
    THEN [t EXCEPT !.raised = @ + 1, !.raised_codes = @ \cup {r.message_type}]
    ELSE IF r.message_type \notin parsers
    THEN [t EXCEPT !.unregistered = @ + 1, !.unregistered_codes = @ \cup {r.message_type}]
    ELSE t

RECURSIVE Tally(_, _, _, _, _)
TallyStep(r, event_log, count, pos, num, t) ==
    IF r.raised THEN t
    ELSE Tally(event_log, count, pos + r.length, num + 1, TallyAdd(t, r, event_log))

\* The tally of the records the decode loop goes through from entry num on.
Tally(event_log, count, pos, num, t) ==
    IF num >= count THEN t
    ELSE TallyStep(parse_entry(event_log, pos, 0, timezone_offset), event_log, count, pos, num, t)

Range(seq) == {seq[i] : i \in 1..Len(seq)}

Distinct(seq) == \A i, j \in 1..Len(seq) : seq[i] = seq[j] => i = j

\* The counters against a tally of the records.
CountersAsClaimed(t) ==
    /\ unhandled = t.raised
    /\ unknown_entries = t.unregistered
    /\ Range(unknown) = t.unregistered_codes
    /\ Distinct(unknown)

\* C29: after decoding a Rev0/Rev1 log, the decoder-exception counter equals
\* the number of records whose decoder raised, the unknown-code counter
\* equals the number of records whose message-type code is not in the
\* registry, and the distinct codes reported are exactly the unregistered
\* codes seen; a record whose decoder raised is not counted as an unknown
\* code.
C29_DiagnosticCounters ==
    pc = "done" => \E t \in {Tally(entries, entries_count, 0, 0, NoTally)} : CountersAsClaimed(t)

\* What the counters hold: the exception counter is as claimed; the
\* unknown-code counter counts every entry written with '???' in its
\* conditions, which the fallback entry of a record whose decoder raised and
\* the entry written after the log was exhausted have as well, and the codes
\* of those are reported with the unregistered ones.
CountersAsCoded(t) ==
    /\ unhandled = t.raised
    /\ unknown_entries = t.unregistered + t.raised + t.exhausted
    /\ Range(unknown) = t.unregistered_codes \cup t.raised_codes
                           \cup (IF t.exhausted > 0 THEN {0} ELSE {})
    /\ Distinct(unknown)

DiagnosticCountersAsCoded ==
    pc = "done" => \E t \in {Tally(entries, entries_count, 0, 0, NoTally)} : CountersAsCoded(t)

\* A log of one record of the registered type 0xfd whose decoder raised has
\* been decoded, and the record is counted as an unknown entry of code 0xfd.
RaisedCountedAsUnknown ==
    /\ pc = "done"
    /\ entries_count = 1
    /\ last.decoder_raised
    /\ last.message_type = 253
    /\ unhandled = 1
    /\ unknown_entries = 1
    /\ unknown = <<253>>

\* A log of an unregistered record and a decoded one has been decoded, and
\* the counters are as claimed.
CountersRight ==
    /\ pc = "done"
    /\ entries_count = 2
    /\ unhandled = 0
    /\ unknown_entries = 1
    /\ unknown = <<153>>
    /\ Len(output) = 2
    /\ output[2].layout = "event"

(***************************************************************************)
(* Lookup tables of the Gen2 decoders (Spec).                              *)
(***************************************************************************)
\* The text 'Unknown'.
UnknownText == <<85, 110, 107, 110, 111, 119, 110>>

\* parse_entry has read a whole charger-status record (type 0x30) whose
\* state byte is in no entry of the states table of Gen2.charger_status.
UnmappedChargerState ==
    /\ LastRecordCode(48)
    /\ Len(last.message) >= 2
    /\ last.message[2] \notin {0, 1}

\* C30: a decoder that maps an enumerated byte through a lookup table
\* renders a code that is not in the table as an 'Unknown' text and does
\* not fail; here for the state of a charger-status record.
C30_UnknownLookupCodes ==
    UnmappedChargerState =>
        /\ ~last.decoder_raised
        /\ Contains(last.entry.event, UnknownText)

\* What the code does: the states table is read without a default, the
\* 13-wide format of the missing state raises, and parse_entry writes the
\* fallback entry and counts a decoder exception.
UnmappedChargerStateRaises ==
    UnmappedChargerState =>
        /\ last.decoder_raised
        /\ ~last.raised
        /\ startswith(last.entry.event, ExceptionCaught)
        /\ last.unhandled = last.unhandled_in + 1

\* A charger-status record of state 5 has been read and its decoder raised.
ChargerStateFiveRaised ==
    /\ UnmappedChargerState
    /\ last.message[2] = 5
    /\ last.decoder_raised

====
